---- MODULE Spec2Model ----
(***************************************************************************)
(* Chip-to-chip connection lookup of the XT topology tool                  *)
(* (src/.bin/xt_find_c2c_connection.py).                                   *)
(*                                                                         *)
(* A Python str is modelled as a sequence of one-character strings, so     *)
(* that splitting, prefix tests, int() and f-string formatting are         *)
(* computed, not assumed.  The two wiring tables are the module-level      *)
(* lists of the script, row for row.                                       *)
(***************************************************************************)
EXTENDS Integers, Sequences, FiniteSets, TLC

VARIABLES
    argv,            \* sys.argv[1:], the command-line tokens (<<>> for a direct call)
    pc,              \* position of the running function
    fn,              \* resolver chosen: "all", "between", "port" or "none"
    nchips,          \* fabric size
    start_node_num,  \* rotation offset
    A_chip,          \* queried chip
    B_chip,          \* second chip (point-to-point mode)
    port_str,        \* port token (single-port mode)
    connections,     \* the resolver's returned list
    stdout,          \* lines printed so far
    raised,          \* "none", or the exception that left the function uncaught
    coord,           \* <<node, card>> returned by map_chip_to_node_card
    found            \* chip (or None) returned by node_card_to_chip

mapper == <<coord, found>>

vars == <<argv, pc, fn, nchips, start_node_num, A_chip, B_chip, port_str,
          connections, stdout, raised, coord, found>>

(***************************************************************************)
(* Python str and int() primitives                                         *)
(***************************************************************************)
Digits == <<"0", "1", "2", "3", "4", "5", "6", "7", "8", "9">>

IsDigit(c) == \E i \in 1..10 : Digits[i] = c

DigitVal(c) == (CHOOSE i \in 1..10 : Digits[i] = c) - 1

\* s.startswith(prefix)
StartsWith(s, prefix) ==
    /\ Len(s) >= Len(prefix)
    /\ SubSeq(s, 1, Len(prefix)) = prefix

\* s[n:]
Drop(s, n) == SubSeq(s, n + 1, Len(s))

\* s.split(sep) for a one-character separator: the list of fields
RECURSIVE Split(_, _)
Split(s, sep) ==
    IF \A i \in 1..Len(s) : s[i] # sep
    THEN <<s>>
    ELSE LET k == CHOOSE i \in 1..Len(s) :
                      /\ s[i] = sep
                      /\ \A j \in 1..(i - 1) : s[j] # sep
         IN  <<SubSeq(s, 1, k - 1)>> \o Split(Drop(s, k), sep)

\* s.strip() for the blank character
RECURSIVE Strip(_)
Strip(s) ==
    IF s # <<>> /\ s[1] = " " THEN Strip(Tail(s))
    ELSE IF s # <<>> /\ s[Len(s)] = " " THEN Strip(SubSeq(s, 1, Len(s) - 1))
    ELSE s

\* value of a digit string read left to right, underscores skipped
RECURSIVE DigitsVal(_, _)
DigitsVal(s, acc) ==
    IF s = <<>> THEN acc
    ELSE IF s[1] = "_" THEN DigitsVal(Tail(s), acc)
    ELSE DigitsVal(Tail(s), 10 * acc + DigitVal(s[1]))

\* the body int() accepts after the sign: digits, single underscores between digits
IsDigitBody(s) ==
    /\ s # <<>>
    /\ IsDigit(s[1])
    /\ IsDigit(s[Len(s)])
    /\ \A i \in 1..Len(s) : IsDigit(s[i]) \/ s[i] = "_"
    /\ \A i \in 1..(Len(s) - 1) : ~(s[i] = "_" /\ s[i + 1] = "_")

\* int(s): [ok |-> TRUE, val |-> n], or [ok |-> FALSE] for ValueError
IntOf(s) ==
    LET t    == Strip(s)
        neg  == t # <<>> /\ t[1] = "-"
        sign == t # <<>> /\ (t[1] = "-" \/ t[1] = "+")
        body == IF sign THEN Tail(t) ELSE t
    IN  IF IsDigitBody(body)
        THEN [ok |-> TRUE,
              val |-> IF neg THEN 0 - DigitsVal(body, 0) ELSE DigitsVal(body, 0)]
        ELSE [ok |-> FALSE, val |-> 0]

\* str(n) as interpolated by an f-string
RECURSIVE NatToStr(_)
NatToStr(n) ==
    IF n < 10 THEN <<Digits[n + 1]>>
    ELSE NatToStr(n \div 10) \o <<Digits[(n % 10) + 1]>>

IntToStr(n) == IF n < 0 THEN <<"-">> \o NatToStr(0 - n) ELSE NatToStr(n)

(***************************************************************************)
(* The wiring tables                                                       *)
(***************************************************************************)
external_connections ==
  <<
     [connection_number |-> 1, side1 |-> <<"N","8","/","C","7","/","P","1","5">>,
      side2 |-> <<"N","9","/","C","7","/","P","4">>, length |-> "0.5m"],
     [connection_number |-> 2, side1 |-> <<"N","7","/","C","7","/","P","1","5">>,
      side2 |-> <<"N","8","/","C","7","/","P","4">>, length |-> "0.5m"],
     [connection_number |-> 3, side1 |-> <<"N","6","/","C","7","/","P","1","5">>,
      side2 |-> <<"N","7","/","C","7","/","P","4">>, length |-> "0.5m"],
     [connection_number |-> 4, side1 |-> <<"N","5","/","C","7","/","P","1","5">>,
      side2 |-> <<"N","6","/","C","7","/","P","4">>, length |-> "0.5m"],
     [connection_number |-> 5, side1 |-> <<"N","4","/","C","7","/","P","1","5">>,
      side2 |-> <<"N","5","/","C","7","/","P","4">>, length |-> "0.5m"],
     [connection_number |-> 6, side1 |-> <<"N","3","/","C","7","/","P","1","5">>,
      side2 |-> <<"N","4","/","C","7","/","P","4">>, length |-> "0.5m"],
     [connection_number |-> 7, side1 |-> <<"N","2","/","C","7","/","P","1","5">>,
      side2 |-> <<"N","3","/","C","7","/","P","4">>, length |-> "0.5m"],
     [connection_number |-> 8, side1 |-> <<"N","1","/","C","7","/","P","1","5">>,
      side2 |-> <<"N","2","/","C","7","/","P","4">>, length |-> "0.5m"],
     [connection_number |-> 9, side1 |-> <<"N","5","/","C","7","/","P","5">>,
      side2 |-> <<"N","9","/","C","7","/","P","0">>, length |-> "1.0m"],
     [connection_number |-> 10, side1 |-> <<"N","4","/","C","7","/","P","5">>,
      side2 |-> <<"N","8","/","C","7","/","P","0">>, length |-> "1.0m"],
     [connection_number |-> 11, side1 |-> <<"N","3","/","C","7","/","P","5">>,
      side2 |-> <<"N","7","/","C","7","/","P","0">>, length |-> "1.0m"],
     [connection_number |-> 12, side1 |-> <<"N","2","/","C","7","/","P","5">>,
      side2 |-> <<"N","6","/","C","7","/","P","0">>, length |-> "1.0m"],
     [connection_number |-> 13, side1 |-> <<"N","1","/","C","7","/","P","5">>,
      side2 |-> <<"N","5","/","C","7","/","P","0">>, length |-> "1.0m"],
     [connection_number |-> 14, side1 |-> <<"N","6","/","C","6","/","P","1","5">>,
      side2 |-> <<"N","9","/","C","6","/","P","4">>, length |-> "0.75m"],
     [connection_number |-> 15, side1 |-> <<"N","5","/","C","6","/","P","1","5">>,
      side2 |-> <<"N","8","/","C","6","/","P","4">>, length |-> "0.75m"],
     [connection_number |-> 16, side1 |-> <<"N","4","/","C","6","/","P","1","5">>,
      side2 |-> <<"N","7","/","C","6","/","P","4">>, length |-> "0.75m"],
     [connection_number |-> 17, side1 |-> <<"N","3","/","C","6","/","P","1","5">>,
      side2 |-> <<"N","6","/","C","6","/","P","4">>, length |-> "0.75m"],
     [connection_number |-> 18, side1 |-> <<"N","2","/","C","6","/","P","1","5">>,
      side2 |-> <<"N","5","/","C","6","/","P","4">>, length |-> "0.75m"],
     [connection_number |-> 19, side1 |-> <<"N","1","/","C","6","/","P","1","5">>,
      side2 |-> <<"N","4","/","C","6","/","P","4">>, length |-> "0.75m"],
     [connection_number |-> 20, side1 |-> <<"N","7","/","C","6","/","P","5">>,
      side2 |-> <<"N","9","/","C","6","/","P","0">>, length |-> "0.5m"],
     [connection_number |-> 21, side1 |-> <<"N","6","/","C","6","/","P","5">>,
      side2 |-> <<"N","8","/","C","6","/","P","0">>, length |-> "0.5m"],
     [connection_number |-> 22, side1 |-> <<"N","5","/","C","6","/","P","5">>,
      side2 |-> <<"N","7","/","C","6","/","P","0">>, length |-> "0.5m"],
     [connection_number |-> 23, side1 |-> <<"N","4","/","C","6","/","P","5">>,
      side2 |-> <<"N","6","/","C","6","/","P","0">>, length |-> "0.75m"],
     [connection_number |-> 24, side1 |-> <<"N","3","/","C","6","/","P","5">>,
      side2 |-> <<"N","5","/","C","6","/","P","0">>, length |-> "0.75m"],
     [connection_number |-> 25, side1 |-> <<"N","2","/","C","6","/","P","5">>,
      side2 |-> <<"N","4","/","C","6","/","P","0">>, length |-> "0.5m"],
     [connection_number |-> 26, side1 |-> <<"N","1","/","C","6","/","P","5">>,
      side2 |-> <<"N","3","/","C","6","/","P","0">>, length |-> "0.5m"],
     [connection_number |-> 27, side1 |-> <<"N","7","/","C","5","/","P","1","5">>,
      side2 |-> <<"N","9","/","C","5","/","P","4">>, length |-> "0.5m"],
     [connection_number |-> 28, side1 |-> <<"N","6","/","C","5","/","P","1","5">>,
      side2 |-> <<"N","8","/","C","5","/","P","4">>, length |-> "0.5m"],
     [connection_number |-> 29, side1 |-> <<"N","5","/","C","5","/","P","1","5">>,
      side2 |-> <<"N","7","/","C","5","/","P","4">>, length |-> "0.5m"],
     [connection_number |-> 30, side1 |-> <<"N","4","/","C","5","/","P","1","5">>,
      side2 |-> <<"N","6","/","C","5","/","P","4">>, length |-> "0.75m"],
     [connection_number |-> 31, side1 |-> <<"N","3","/","C","5","/","P","1","5">>,
      side2 |-> <<"N","5","/","C","5","/","P","4">>, length |-> "0.75m"],
     [connection_number |-> 32, side1 |-> <<"N","2","/","C","5","/","P","1","5">>,
      side2 |-> <<"N","4","/","C","5","/","P","4">>, length |-> "0.5m"],
     [connection_number |-> 33, side1 |-> <<"N","1","/","C","5","/","P","1","5">>,
      side2 |-> <<"N","3","/","C","5","/","P","4">>, length |-> "0.5m"],
     [connection_number |-> 34, side1 |-> <<"N","5","/","C","5","/","P","5">>,
      side2 |-> <<"N","9","/","C","5","/","P","0">>, length |-> "1.0m"],
     [connection_number |-> 35, side1 |-> <<"N","4","/","C","5","/","P","5">>,
      side2 |-> <<"N","8","/","C","5","/","P","0">>, length |-> "1.0m"],
     [connection_number |-> 36, side1 |-> <<"N","3","/","C","5","/","P","5">>,
      side2 |-> <<"N","7","/","C","5","/","P","0">>, length |-> "1.0m"],
     [connection_number |-> 37, side1 |-> <<"N","2","/","C","5","/","P","5">>,
      side2 |-> <<"N","6","/","C","5","/","P","0">>, length |-> "1.0m"],
     [connection_number |-> 38, side1 |-> <<"N","1","/","C","5","/","P","5">>,
      side2 |-> <<"N","5","/","C","5","/","P","0">>, length |-> "1.0m"],
     [connection_number |-> 39, side1 |-> <<"N","8","/","C","4","/","P","1","5">>,
      side2 |-> <<"N","9","/","C","4","/","P","4">>, length |-> "0.5m"],
     [connection_number |-> 40, side1 |-> <<"N","7","/","C","4","/","P","1","5">>,
      side2 |-> <<"N","8","/","C","4","/","P","4">>, length |-> "0.5m"],
     [connection_number |-> 41, side1 |-> <<"N","6","/","C","4","/","P","1","5">>,
      side2 |-> <<"N","7","/","C","4","/","P","4">>, length |-> "0.5m"],
     [connection_number |-> 42, side1 |-> <<"N","5","/","C","4","/","P","1","5">>,
      side2 |-> <<"N","6","/","C","4","/","P","4">>, length |-> "0.5m"],
     [connection_number |-> 43, side1 |-> <<"N","4","/","C","4","/","P","1","5">>,
      side2 |-> <<"N","5","/","C","4","/","P","4">>, length |-> "0.5m"],
     [connection_number |-> 44, side1 |-> <<"N","3","/","C","4","/","P","1","5">>,
      side2 |-> <<"N","4","/","C","4","/","P","4">>, length |-> "0.5m"],
     [connection_number |-> 45, side1 |-> <<"N","2","/","C","4","/","P","1","5">>,
      side2 |-> <<"N","3","/","C","4","/","P","4">>, length |-> "0.5m"],
     [connection_number |-> 46, side1 |-> <<"N","1","/","C","4","/","P","1","5">>,
      side2 |-> <<"N","2","/","C","4","/","P","4">>, length |-> "0.5m"],
     [connection_number |-> 47, side1 |-> <<"N","6","/","C","4","/","P","5">>,
      side2 |-> <<"N","9","/","C","4","/","P","0">>, length |-> "0.75m"],
     [connection_number |-> 48, side1 |-> <<"N","5","/","C","4","/","P","5">>,
      side2 |-> <<"N","8","/","C","4","/","P","0">>, length |-> "0.75m"],
     [connection_number |-> 49, side1 |-> <<"N","4","/","C","4","/","P","5">>,
      side2 |-> <<"N","7","/","C","4","/","P","0">>, length |-> "0.75m"],
     [connection_number |-> 50, side1 |-> <<"N","3","/","C","4","/","P","5">>,
      side2 |-> <<"N","6","/","C","4","/","P","0">>, length |-> "0.75m"],
     [connection_number |-> 51, side1 |-> <<"N","2","/","C","4","/","P","5">>,
      side2 |-> <<"N","5","/","C","4","/","P","0">>, length |-> "0.75m"],
     [connection_number |-> 52, side1 |-> <<"N","1","/","C","4","/","P","5">>,
      side2 |-> <<"N","4","/","C","4","/","P","0">>, length |-> "0.75m"],
     [connection_number |-> 53, side1 |-> <<"N","6","/","C","3","/","P","1","5">>,
      side2 |-> <<"N","9","/","C","3","/","P","4">>, length |-> "0.75m"],
     [connection_number |-> 54, side1 |-> <<"N","5","/","C","3","/","P","1","5">>,
      side2 |-> <<"N","8","/","C","3","/","P","4">>, length |-> "0.75m"],
     [connection_number |-> 55, side1 |-> <<"N","4","/","C","3","/","P","1","5">>,
      side2 |-> <<"N","7","/","C","3","/","P","4">>, length |-> "0.75m"],
     [connection_number |-> 56, side1 |-> <<"N","3","/","C","3","/","P","1","5">>,
      side2 |-> <<"N","6","/","C","3","/","P","4">>, length |-> "0.75m"],
     [connection_number |-> 57, side1 |-> <<"N","2","/","C","3","/","P","1","5">>,
      side2 |-> <<"N","5","/","C","3","/","P","4">>, length |-> "0.75m"],
     [connection_number |-> 58, side1 |-> <<"N","1","/","C","3","/","P","1","5">>,
      side2 |-> <<"N","4","/","C","3","/","P","4">>, length |-> "0.75m"],
     [connection_number |-> 59, side1 |-> <<"N","5","/","C","3","/","P","5">>,
      side2 |-> <<"N","9","/","C","3","/","P","0">>, length |-> "1.0m"],
     [connection_number |-> 60, side1 |-> <<"N","4","/","C","3","/","P","5">>,
      side2 |-> <<"N","8","/","C","3","/","P","0">>, length |-> "1.0m"],
     [connection_number |-> 61, side1 |-> <<"N","3","/","C","3","/","P","5">>,
      side2 |-> <<"N","7","/","C","3","/","P","0">>, length |-> "1.0m"],
     [connection_number |-> 62, side1 |-> <<"N","2","/","C","3","/","P","5">>,
      side2 |-> <<"N","6","/","C","3","/","P","0">>, length |-> "1.0m"],
     [connection_number |-> 63, side1 |-> <<"N","1","/","C","3","/","P","5">>,
      side2 |-> <<"N","5","/","C","3","/","P","0">>, length |-> "1.0m"],
     [connection_number |-> 64, side1 |-> <<"N","8","/","C","2","/","P","1","5">>,
      side2 |-> <<"N","9","/","C","2","/","P","4">>, length |-> "0.5m"],
     [connection_number |-> 65, side1 |-> <<"N","7","/","C","2","/","P","1","5">>,
      side2 |-> <<"N","8","/","C","2","/","P","4">>, length |-> "0.5m"],
     [connection_number |-> 66, side1 |-> <<"N","6","/","C","2","/","P","1","5">>,
      side2 |-> <<"N","7","/","C","2","/","P","4">>, length |-> "0.5m"],
     [connection_number |-> 67, side1 |-> <<"N","5","/","C","2","/","P","1","5">>,
      side2 |-> <<"N","6","/","C","2","/","P","4">>, length |-> "0.5m"],
     [connection_number |-> 68, side1 |-> <<"N","4","/","C","2","/","P","1","5">>,
      side2 |-> <<"N","5","/","C","2","/","P","4">>, length |-> "0.5m"],
     [connection_number |-> 69, side1 |-> <<"N","3","/","C","2","/","P","1","5">>,
      side2 |-> <<"N","4","/","C","2","/","P","4">>, length |-> "0.5m"],
     [connection_number |-> 70, side1 |-> <<"N","2","/","C","2","/","P","1","5">>,
      side2 |-> <<"N","3","/","C","2","/","P","4">>, length |-> "0.5m"],
     [connection_number |-> 71, side1 |-> <<"N","1","/","C","2","/","P","1","5">>,
      side2 |-> <<"N","2","/","C","2","/","P","4">>, length |-> "0.5m"],
     [connection_number |-> 72, side1 |-> <<"N","7","/","C","2","/","P","5">>,
      side2 |-> <<"N","9","/","C","2","/","P","0">>, length |-> "0.5m"],
     [connection_number |-> 73, side1 |-> <<"N","6","/","C","2","/","P","5">>,
      side2 |-> <<"N","8","/","C","2","/","P","0">>, length |-> "0.5m"],
     [connection_number |-> 74, side1 |-> <<"N","5","/","C","2","/","P","5">>,
      side2 |-> <<"N","7","/","C","2","/","P","0">>, length |-> "0.5m"],
     [connection_number |-> 75, side1 |-> <<"N","4","/","C","2","/","P","5">>,
      side2 |-> <<"N","6","/","C","2","/","P","0">>, length |-> "0.75m"],
     [connection_number |-> 76, side1 |-> <<"N","3","/","C","2","/","P","5">>,
      side2 |-> <<"N","5","/","C","2","/","P","0">>, length |-> "0.5m"],
     [connection_number |-> 77, side1 |-> <<"N","2","/","C","2","/","P","5">>,
      side2 |-> <<"N","4","/","C","2","/","P","0">>, length |-> "0.5m"],
     [connection_number |-> 78, side1 |-> <<"N","1","/","C","2","/","P","5">>,
      side2 |-> <<"N","3","/","C","2","/","P","0">>, length |-> "0.5m"],
     [connection_number |-> 79, side1 |-> <<"N","6","/","C","1","/","P","1","5">>,
      side2 |-> <<"N","9","/","C","1","/","P","4">>, length |-> "0.75m"],
     [connection_number |-> 80, side1 |-> <<"N","5","/","C","1","/","P","1","5">>,
      side2 |-> <<"N","8","/","C","1","/","P","4">>, length |-> "0.75m"],
     [connection_number |-> 81, side1 |-> <<"N","4","/","C","1","/","P","1","5">>,
      side2 |-> <<"N","7","/","C","1","/","P","4">>, length |-> "0.75m"],
     [connection_number |-> 82, side1 |-> <<"N","3","/","C","1","/","P","1","5">>,
      side2 |-> <<"N","6","/","C","1","/","P","4">>, length |-> "0.75m"],
     [connection_number |-> 83, side1 |-> <<"N","2","/","C","1","/","P","1","5">>,
      side2 |-> <<"N","5","/","C","1","/","P","4">>, length |-> "0.75m"],
     [connection_number |-> 84, side1 |-> <<"N","1","/","C","1","/","P","1","5">>,
      side2 |-> <<"N","4","/","C","1","/","P","4">>, length |-> "0.75m"],
     [connection_number |-> 85, side1 |-> <<"N","5","/","C","1","/","P","5">>,
      side2 |-> <<"N","9","/","C","1","/","P","0">>, length |-> "1.0m"],
     [connection_number |-> 86, side1 |-> <<"N","4","/","C","1","/","P","5">>,
      side2 |-> <<"N","8","/","C","1","/","P","0">>, length |-> "1.0m"],
     [connection_number |-> 87, side1 |-> <<"N","3","/","C","1","/","P","5">>,
      side2 |-> <<"N","7","/","C","1","/","P","0">>, length |-> "1.0m"],
     [connection_number |-> 88, side1 |-> <<"N","2","/","C","1","/","P","5">>,
      side2 |-> <<"N","6","/","C","1","/","P","0">>, length |-> "1.0m"],
     [connection_number |-> 89, side1 |-> <<"N","1","/","C","1","/","P","5">>,
      side2 |-> <<"N","5","/","C","1","/","P","0">>, length |-> "1.0m"],
     [connection_number |-> 90, side1 |-> <<"N","7","/","C","0","/","P","1","5">>,
      side2 |-> <<"N","9","/","C","0","/","P","4">>, length |-> "0.5m"],
     [connection_number |-> 91, side1 |-> <<"N","6","/","C","0","/","P","1","5">>,
      side2 |-> <<"N","8","/","C","0","/","P","4">>, length |-> "0.5m"],
     [connection_number |-> 92, side1 |-> <<"N","5","/","C","0","/","P","1","5">>,
      side2 |-> <<"N","7","/","C","0","/","P","4">>, length |-> "0.5m"],
     [connection_number |-> 93, side1 |-> <<"N","4","/","C","0","/","P","1","5">>,
      side2 |-> <<"N","6","/","C","0","/","P","4">>, length |-> "0.75m"],
     [connection_number |-> 94, side1 |-> <<"N","3","/","C","0","/","P","1","5">>,
      side2 |-> <<"N","5","/","C","0","/","P","4">>, length |-> "0.5m"],
     [connection_number |-> 95, side1 |-> <<"N","2","/","C","0","/","P","1","5">>,
      side2 |-> <<"N","4","/","C","0","/","P","4">>, length |-> "0.5m"],
     [connection_number |-> 96, side1 |-> <<"N","1","/","C","0","/","P","1","5">>,
      side2 |-> <<"N","3","/","C","0","/","P","4">>, length |-> "0.5m"],
     [connection_number |-> 97, side1 |-> <<"N","8","/","C","0","/","P","5">>,
      side2 |-> <<"N","9","/","C","0","/","P","0">>, length |-> "0.5m"],
     [connection_number |-> 98, side1 |-> <<"N","7","/","C","0","/","P","5">>,
      side2 |-> <<"N","8","/","C","0","/","P","0">>, length |-> "0.5m"],
     [connection_number |-> 99, side1 |-> <<"N","6","/","C","0","/","P","5">>,
      side2 |-> <<"N","7","/","C","0","/","P","0">>, length |-> "0.5m"],
     [connection_number |-> 100, side1 |-> <<"N","5","/","C","0","/","P","5">>,
      side2 |-> <<"N","6","/","C","0","/","P","0">>, length |-> "0.5m"],
     [connection_number |-> 101, side1 |-> <<"N","4","/","C","0","/","P","5">>,
      side2 |-> <<"N","5","/","C","0","/","P","0">>, length |-> "0.5m"],
     [connection_number |-> 102, side1 |-> <<"N","3","/","C","0","/","P","5">>,
      side2 |-> <<"N","4","/","C","0","/","P","0">>, length |-> "0.5m"],
     [connection_number |-> 103, side1 |-> <<"N","2","/","C","0","/","P","5">>,
      side2 |-> <<"N","3","/","C","0","/","P","0">>, length |-> "0.5m"],
     [connection_number |-> 104, side1 |-> <<"N","1","/","C","0","/","P","5">>,
      side2 |-> <<"N","2","/","C","0","/","P","0">>, length |-> "0.5m"],
     [connection_number |-> 105, side1 |-> <<"N","9","/","C","1","/","P","5">>,
      side2 |-> <<"N","e","x","t"," ","N","4","/","C","1","/","P","0">>, length |-> "2.75m"],
     [connection_number |-> 106, side1 |-> <<"N","9","/","C","1","/","P","1","5">>,
      side2 |-> <<"N","e","x","t"," ","N","3","/","C","1","/","P","4">>, length |-> "2.75m"],
     [connection_number |-> 107, side1 |-> <<"N","9","/","C","3","/","P","5">>,
      side2 |-> <<"N","e","x","t"," ","N","4","/","C","3","/","P","0">>, length |-> "2.75m"],
     [connection_number |-> 108, side1 |-> <<"N","9","/","C","3","/","P","1","5">>,
      side2 |-> <<"N","e","x","t"," ","N","3","/","C","3","/","P","4">>, length |-> "2.75m"],
     [connection_number |-> 109, side1 |-> <<"N","9","/","C","4","/","P","5">>,
      side2 |-> <<"N","e","x","t"," ","N","3","/","C","4","/","P","0">>, length |-> "2.75m"],
     [connection_number |-> 110, side1 |-> <<"N","9","/","C","5","/","P","5">>,
      side2 |-> <<"N","e","x","t"," ","N","4","/","C","5","/","P","0">>, length |-> "2.75m"],
     [connection_number |-> 111, side1 |-> <<"N","9","/","C","7","/","P","5">>,
      side2 |-> <<"N","e","x","t"," ","N","4","/","C","7","/","P","0">>, length |-> "2.75m"],
     [connection_number |-> 112, side1 |-> <<"N","8","/","C","1","/","P","5">>,
      side2 |-> <<"N","e","x","t"," ","N","3","/","C","1","/","P","0">>, length |-> "3m"],
     [connection_number |-> 113, side1 |-> <<"N","8","/","C","3","/","P","5">>,
      side2 |-> <<"N","e","x","t"," ","N","3","/","C","3","/","P","0">>, length |-> "3m"],
     [connection_number |-> 114, side1 |-> <<"N","8","/","C","3","/","P","1","5">>,
      side2 |-> <<"N","e","x","t"," ","N","2","/","C","3","/","P","4">>, length |-> "3m"],
     [connection_number |-> 115, side1 |-> <<"N","8","/","C","4","/","P","5">>,
      side2 |-> <<"N","e","x","t"," ","N","2","/","C","4","/","P","0">>, length |-> "3m"],
     [connection_number |-> 116, side1 |-> <<"N","8","/","C","5","/","P","5">>,
      side2 |-> <<"N","e","x","t"," ","N","3","/","C","5","/","P","0">>, length |-> "3m"],
     [connection_number |-> 117, side1 |-> <<"N","8","/","C","7","/","P","5">>,
      side2 |-> <<"N","e","x","t"," ","N","3","/","C","7","/","P","0">>, length |-> "3m"],
     [connection_number |-> 118, side1 |-> <<"N","9","/","C","0","/","P","1","5">>,
      side2 |-> <<"N","e","x","t"," ","N","2","/","C","0","/","P","4">>, length |-> "3m"],
     [connection_number |-> 119, side1 |-> <<"N","9","/","C","2","/","P","5">>,
      side2 |-> <<"N","e","x","t"," ","N","2","/","C","2","/","P","0">>, length |-> "3m"],
     [connection_number |-> 120, side1 |-> <<"N","9","/","C","5","/","P","1","5">>,
      side2 |-> <<"N","e","x","t"," ","N","2","/","C","5","/","P","4">>, length |-> "3m"],
     [connection_number |-> 121, side1 |-> <<"N","9","/","C","6","/","P","5">>,
      side2 |-> <<"N","e","x","t"," ","N","2","/","C","6","/","P","0">>, length |-> "3m"],
     [connection_number |-> 122, side1 |-> <<"N","9","/","C","6","/","P","1","5">>,
      side2 |-> <<"N","e","x","t"," ","N","3","/","C","6","/","P","4">>, length |-> "3m"],
     [connection_number |-> 123, side1 |-> <<"N","8","/","C","0","/","P","1","5">>,
      side2 |-> <<"N","e","x","t"," ","N","1","/","C","0","/","P","4">>, length |-> "3.25m"],
     [connection_number |-> 124, side1 |-> <<"N","8","/","C","1","/","P","1","5">>,
      side2 |-> <<"N","e","x","t"," ","N","2","/","C","1","/","P","4">>, length |-> "3.25m"],
     [connection_number |-> 125, side1 |-> <<"N","8","/","C","2","/","P","5">>,
      side2 |-> <<"N","e","x","t"," ","N","1","/","C","2","/","P","0">>, length |-> "3.25m"],
     [connection_number |-> 126, side1 |-> <<"N","8","/","C","5","/","P","1","5">>,
      side2 |-> <<"N","e","x","t"," ","N","1","/","C","5","/","P","4">>, length |-> "3.25m"],
     [connection_number |-> 127, side1 |-> <<"N","8","/","C","6","/","P","5">>,
      side2 |-> <<"N","e","x","t"," ","N","1","/","C","6","/","P","0">>, length |-> "3.25m"],
     [connection_number |-> 128, side1 |-> <<"N","8","/","C","6","/","P","1","5">>,
      side2 |-> <<"N","e","x","t"," ","N","2","/","C","6","/","P","4">>, length |-> "3.25m"],
     [connection_number |-> 129, side1 |-> <<"N","9","/","C","0","/","P","5">>,
      side2 |-> <<"N","e","x","t"," ","N","1","/","C","0","/","P","0">>, length |-> "3.25m"],
     [connection_number |-> 130, side1 |-> <<"N","9","/","C","2","/","P","1","5">>,
      side2 |-> <<"N","e","x","t"," ","N","1","/","C","2","/","P","4">>, length |-> "3.25m"],
     [connection_number |-> 131, side1 |-> <<"N","9","/","C","4","/","P","1","5">>,
      side2 |-> <<"N","e","x","t"," ","N","1","/","C","4","/","P","4">>, length |-> "3.25m"],
     [connection_number |-> 132, side1 |-> <<"N","9","/","C","7","/","P","1","5">>,
      side2 |-> <<"N","e","x","t"," ","N","1","/","C","7","/","P","4">>, length |-> "3.25m"],
     [connection_number |-> 133, side1 |-> <<"N","7","/","C","1","/","P","5">>,
      side2 |-> <<"N","e","x","t"," ","N","2","/","C","1","/","P","0">>, length |-> "3.5m"],
     [connection_number |-> 134, side1 |-> <<"N","7","/","C","1","/","P","1","5">>,
      side2 |-> <<"N","e","x","t"," ","N","1","/","C","1","/","P","4">>, length |-> "3.5m"],
     [connection_number |-> 135, side1 |-> <<"N","7","/","C","3","/","P","5">>,
      side2 |-> <<"N","e","x","t"," ","N","2","/","C","3","/","P","0">>, length |-> "3.5m"],
     [connection_number |-> 136, side1 |-> <<"N","7","/","C","3","/","P","1","5">>,
      side2 |-> <<"N","e","x","t"," ","N","1","/","C","3","/","P","4">>, length |-> "3.5m"],
     [connection_number |-> 137, side1 |-> <<"N","7","/","C","4","/","P","5">>,
      side2 |-> <<"N","e","x","t"," ","N","1","/","C","4","/","P","0">>, length |-> "3.5m"],
     [connection_number |-> 138, side1 |-> <<"N","7","/","C","5","/","P","5">>,
      side2 |-> <<"N","e","x","t"," ","N","2","/","C","5","/","P","0">>, length |-> "3.5m"],
     [connection_number |-> 139, side1 |-> <<"N","7","/","C","6","/","P","1","5">>,
      side2 |-> <<"N","e","x","t"," ","N","1","/","C","6","/","P","4">>, length |-> "3.5m"],
     [connection_number |-> 140, side1 |-> <<"N","7","/","C","7","/","P","5">>,
      side2 |-> <<"N","e","x","t"," ","N","2","/","C","7","/","P","0">>, length |-> "3.5m"],
     [connection_number |-> 141, side1 |-> <<"N","6","/","C","1","/","P","5">>,
      side2 |-> <<"N","e","x","t"," ","N","1","/","C","1","/","P","0">>, length |-> "3.75m"],
     [connection_number |-> 142, side1 |-> <<"N","6","/","C","3","/","P","5">>,
      side2 |-> <<"N","e","x","t"," ","N","1","/","C","3","/","P","0">>, length |-> "3.75m"],
     [connection_number |-> 143, side1 |-> <<"N","6","/","C","5","/","P","5">>,
      side2 |-> <<"N","e","x","t"," ","N","1","/","C","5","/","P","0">>, length |-> "3.75m"],
     [connection_number |-> 144, side1 |-> <<"N","6","/","C","7","/","P","5">>,
      side2 |-> <<"N","e","x","t"," ","N","1","/","C","7","/","P","0">>, length |-> "3.75m"]
  >>

internal_connections ==
  <<
     [card1 |-> 3, connector1 |-> 11, card2 |-> 1, connector2 |-> 11],
     [card1 |-> 3, connector1 |-> 6, card2 |-> 2, connector2 |-> 12],
     [card1 |-> 3, connector1 |-> 7, card2 |-> 0, connector2 |-> 14],
     [card1 |-> 2, connector1 |-> 14, card2 |-> 1, connector2 |-> 12],
     [card1 |-> 2, connector1 |-> 7, card2 |-> 0, connector2 |-> 13],
     [card1 |-> 1, connector1 |-> 6, card2 |-> 0, connector2 |-> 12],
     [card1 |-> 7, connector1 |-> 11, card2 |-> 5, connector2 |-> 11],
     [card1 |-> 7, connector1 |-> 6, card2 |-> 6, connector2 |-> 12],
     [card1 |-> 7, connector1 |-> 7, card2 |-> 4, connector2 |-> 14],
     [card1 |-> 6, connector1 |-> 14, card2 |-> 5, connector2 |-> 12],
     [card1 |-> 6, connector1 |-> 7, card2 |-> 4, connector2 |-> 13],
     [card1 |-> 5, connector1 |-> 6, card2 |-> 4, connector2 |-> 12],
     [card1 |-> 7, connector1 |-> 14, card2 |-> 2, connector2 |-> 13],
     [card1 |-> 7, connector1 |-> 13, card2 |-> 3, connector2 |-> 13],
     [card1 |-> 7, connector1 |-> 12, card2 |-> 1, connector2 |-> 13],
     [card1 |-> 7, connector1 |-> 8, card2 |-> 0, connector2 |-> 11],
     [card1 |-> 6, connector1 |-> 13, card2 |-> 3, connector2 |-> 14],
     [card1 |-> 6, connector1 |-> 11, card2 |-> 1, connector2 |-> 14],
     [card1 |-> 6, connector1 |-> 6, card2 |-> 2, connector2 |-> 6],
     [card1 |-> 6, connector1 |-> 8, card2 |-> 0, connector2 |-> 6],
     [card1 |-> 5, connector1 |-> 14, card2 |-> 2, connector2 |-> 11],
     [card1 |-> 5, connector1 |-> 13, card2 |-> 3, connector2 |-> 12],
     [card1 |-> 5, connector1 |-> 7, card2 |-> 1, connector2 |-> 7],
     [card1 |-> 5, connector1 |-> 8, card2 |-> 0, connector2 |-> 7],
     [card1 |-> 4, connector1 |-> 11, card2 |-> 3, connector2 |-> 8],
     [card1 |-> 4, connector1 |-> 7, card2 |-> 1, connector2 |-> 8],
     [card1 |-> 4, connector1 |-> 6, card2 |-> 2, connector2 |-> 8],
     [card1 |-> 4, connector1 |-> 8, card2 |-> 0, connector2 |-> 8]
  >>

(***************************************************************************)
(* Table access and coordinate mapping                                     *)
(***************************************************************************)

\* parse_side: <<rack, node, card, port>> of a side string
parse_side(side_str) ==
    LET isNext == StartsWith(side_str, <<"N", "e", "x", "t", " ">>)
        rack   == IF isNext THEN "RX+1" ELSE "RX"
        rest   == IF isNext THEN Drop(side_str, 5) ELSE side_str
        parts  == Split(rest, "/")
    IN  <<rack, parts[1], parts[2], parts[3]>>

\* One external row as the resolver loops see it after parse_side and int():
\* the two sides' rack, node and card strings and the six numbers.
ParsedRow(conn) ==
    LET s1 == parse_side(conn.side1)
        s2 == parse_side(conn.side2)
    IN  [s1_rack |-> s1[1], s1_node |-> s1[2], s1_card |-> s1[3],
         s2_rack |-> s2[1], s2_node |-> s2[2], s2_card |-> s2[3],
         s1_node_num |-> IntOf(Drop(s1[2], 1)).val,
         s1_card_num |-> IntOf(Drop(s1[3], 1)).val,
         s2_node_num |-> IntOf(Drop(s2[2], 1)).val,
         s2_card_num |-> IntOf(Drop(s2[3], 1)).val,
         p1 |-> IntOf(Drop(s1[4], 1)).val,
         p2 |-> IntOf(Drop(s2[4], 1)).val]

\* mutant: the last row of the table is a second copy of the first
external_rows_rowTwice ==
    [i \in 1..Len(external_connections) |->
         ParsedRow(external_connections[IF i = Len(external_connections)
                                        THEN 1 ELSE i])]

\* The parsed rows, in table order (every query re-derives the same values).
external_rows == [i \in 1..Len(external_connections) |->
                      ParsedRow(external_connections[i])]

\* node_card_to_chip returns None when no chip matches; chips are >= 0
None == -1

\* mutant: the start node added without the "- 1"
map_chip_to_node_card_noMinus(chip, s) ==
    <<(((chip \div 8) + s) % 9) + 1, chip % 8>>

\* mutant: the ring taken modulo 8 instead of 9
map_chip_to_node_card_mod8(chip, s) ==
    <<(((chip \div 8) + (s - 1)) % 8) + 1, chip % 8>>

map_chip_to_node_card(chip, s) ==
    <<(((chip \div 8) + (s - 1)) % 9) + 1, chip % 8>>

\* mutant: the scan stops one chip short of the window
node_card_to_chip_offByOne(node_num, card_num, s, n) ==
    LET hits == {c \in 0..(n - 2) :
                     map_chip_to_node_card(c, s) = <<node_num, card_num>>}
    IN  IF hits = {} THEN None
        ELSE CHOOSE c \in hits : \A d \in hits : c <= d

\* mutant: the scan compares the card and forgets the node
node_card_to_chip_cardOnly(node_num, card_num, s, n) ==
    LET hits == {c \in 0..(n - 1) : map_chip_to_node_card(c, s)[2] = card_num}
    IN  IF hits = {} THEN None
        ELSE CHOOSE c \in hits : \A d \in hits : c <= d

\* first match of the scan over range(nchips), None if there is none
node_card_to_chip(node_num, card_num, s, n) ==
    LET hits == {c \in 0..(n - 1) :
                     map_chip_to_node_card(c, s) = <<node_num, card_num>>}
    IN  IF hits = {} THEN None
        ELSE CHOOSE c \in hits : \A d \in hits : c <= d

\* A for loop whose body appends at most one element per row: steps[i] is
\* what row i appends (<<>> or a one-element list); the result is the
\* appended elements in row order.
Collect(steps) ==
    LET hits   == {i \in 1..Len(steps) : steps[i] # <<>>}
        Kth(k) == CHOOSE i \in hits : Cardinality({j \in hits : j <= i}) = k
    IN  [k \in 1..Cardinality(hits) |-> steps[Kth(k)][1]]

\* mutant: the list is returned as collected, unsorted
SortByPort_unsorted(seq) == seq

\* list.sort(key=lambda x: x[0]): stable insertion by the first component
RECURSIVE SortByPort(_)
SortByPort(seq) ==
    IF seq = <<>> THEN <<>>
    ELSE LET init   == SortByPort(SubSeq(seq, 1, Len(seq) - 1))
             e      == seq[Len(seq)]
             k      == Cardinality({i \in 1..Len(init) : init[i][1] <= e[1]})
         IN  SubSeq(init, 1, k) \o <<e>> \o SubSeq(init, k + 1, Len(init))

NodeStr(n) == <<"N">> \o IntToStr(n)
CardStr(c) == <<"C">> \o IntToStr(c)

(***************************************************************************)
(* The three resolver modes                                                *)
(***************************************************************************)

\* A connection is the 10-tuple the script appends:
\* <<portA, rackA, nodeA, cardA, devA, rackB, nodeB, cardB, portB, devB>>

\* loop body of find_all_connections_for_chip over internal_connections
\* mutant: an internal row is matched on its first card only
AllInternalStep_card1Only(conn, nA, cA, A, s, n) ==
    IF conn.card1 = cA
    THEN LET other_chip == node_card_to_chip(nA, conn.card2, s, n)
         IN  IF other_chip # None
             THEN << <<conn.connector1, "RX", NodeStr(nA), CardStr(cA), A,
                       "RX", NodeStr(nA), CardStr(conn.card2),
                       conn.connector2, other_chip>> >>
             ELSE <<>>
    ELSE <<>>

\* loop body of find_all_connections_for_chip over internal_connections
AllInternalStep(conn, nA, cA, A, s, n) ==
    IF conn.card1 = cA
    THEN LET other_chip == node_card_to_chip(nA, conn.card2, s, n)
         IN  IF other_chip # None
             THEN << <<conn.connector1, "RX", NodeStr(nA), CardStr(cA), A,
                       "RX", NodeStr(nA), CardStr(conn.card2),
                       conn.connector2, other_chip>> >>
             ELSE <<>>
    ELSE IF conn.card2 = cA
    THEN LET other_chip == node_card_to_chip(nA, conn.card1, s, n)
         IN  IF other_chip # None
             THEN << <<conn.connector2, "RX", NodeStr(nA), CardStr(cA), A,
                       "RX", NodeStr(nA), CardStr(conn.card1),
                       conn.connector1, other_chip>> >>
             ELSE <<>>
    ELSE <<>>

\* mutant: the partner is appended without the "is not None" test
AllExternalStep_noNoneCheck(r, nA, cA, A, s, n) ==
    IF r.s1_node_num = nA /\ r.s1_card_num = cA
    THEN << <<r.p1, r.s1_rack, r.s1_node, r.s1_card, A,
              r.s2_rack, r.s2_node, r.s2_card, r.p2,
              node_card_to_chip(r.s2_node_num, r.s2_card_num, s, n)>> >>
    ELSE IF r.s2_node_num = nA /\ r.s2_card_num = cA
    THEN << <<r.p2, r.s2_rack, r.s2_node, r.s2_card, A,
              r.s1_rack, r.s1_node, r.s1_card, r.p1,
              node_card_to_chip(r.s1_node_num, r.s1_card_num, s, n)>> >>
    ELSE <<>>

\* mutant: the queried side is always labelled RX
AllExternalStep_queriedRX(r, nA, cA, A, s, n) ==
    IF r.s1_node_num = nA /\ r.s1_card_num = cA
    THEN LET other_chip == node_card_to_chip(r.s2_node_num, r.s2_card_num, s, n)
         IN  IF other_chip # None
             THEN << <<r.p1, "RX", r.s1_node, r.s1_card, A,
                       r.s2_rack, r.s2_node, r.s2_card, r.p2, other_chip>> >>
             ELSE <<>>
    ELSE IF r.s2_node_num = nA /\ r.s2_card_num = cA
    THEN LET other_chip == node_card_to_chip(r.s1_node_num, r.s1_card_num, s, n)
         IN  IF other_chip # None
             THEN << <<r.p2, "RX", r.s2_node, r.s2_card, A,
                       r.s1_rack, r.s1_node, r.s1_card, r.p1, other_chip>> >>
             ELSE <<>>
    ELSE <<>>

\* mutant: a row is matched on its first side only
AllExternalStep_side1Only(r, nA, cA, A, s, n) ==
    IF r.s1_node_num = nA /\ r.s1_card_num = cA
    THEN LET other_chip == node_card_to_chip(r.s2_node_num, r.s2_card_num, s, n)
         IN  IF other_chip # None
             THEN << <<r.p1, r.s1_rack, r.s1_node, r.s1_card, A,
                       r.s2_rack, r.s2_node, r.s2_card, r.p2, other_chip>> >>
             ELSE <<>>
    ELSE <<>>

\* loop body of find_all_connections_for_chip over external_connections
AllExternalStep(r, nA, cA, A, s, n) ==
    IF r.s1_node_num = nA /\ r.s1_card_num = cA
    THEN LET other_chip == node_card_to_chip(r.s2_node_num, r.s2_card_num, s, n)
         IN  IF other_chip # None
             THEN << <<r.p1, r.s1_rack, r.s1_node, r.s1_card, A,
                       r.s2_rack, r.s2_node, r.s2_card, r.p2, other_chip>> >>
             ELSE <<>>
    ELSE IF r.s2_node_num = nA /\ r.s2_card_num = cA
    THEN LET other_chip == node_card_to_chip(r.s1_node_num, r.s1_card_num, s, n)
         IN  IF other_chip # None
             THEN << <<r.p2, r.s2_rack, r.s2_node, r.s2_card, A,
                       r.s1_rack, r.s1_node, r.s1_card, r.p1, other_chip>> >>
             ELSE <<>>
    ELSE <<>>

\* the list find_all_connections_for_chip has built when it reaches its sort
AllCollected(n, s, A) ==
    LET nc == map_chip_to_node_card(A, s)
        int == [i \in 1..Len(internal_connections) |->
                    AllInternalStep(internal_connections[i],
                                    nc[1], nc[2], A, s, n)]
        ext == [i \in 1..Len(external_connections) |->
                    AllExternalStep(external_rows[i], nc[1], nc[2], A, s, n)]
    IN  Collect(int) \o Collect(ext)

find_all_connections_for_chip(n, s, A) == SortByPort(AllCollected(n, s, A))

\* loop body of find_connections_between_chips, same-node branch
BetweenInternalStep(conn, nA, cA, A, nB, cB, B) ==
    IF conn.card1 = cA /\ conn.card2 = cB
    THEN << <<conn.connector1, "RX", NodeStr(nA), CardStr(cA), A,
              "RX", NodeStr(nB), CardStr(cB), conn.connector2, B>> >>
    ELSE IF conn.card2 = cA /\ conn.card1 = cB
    THEN << <<conn.connector2, "RX", NodeStr(nA), CardStr(cA), A,
              "RX", NodeStr(nB), CardStr(cB), conn.connector1, B>> >>
    ELSE <<>>

\* mutant: the two sides are matched on the node numbers alone
BetweenExternalStep_nodeOnly(r, nA, cA, A, nB, cB, B) ==
    IF r.s1_node_num = nA /\ r.s2_node_num = nB
    THEN << <<r.p1, r.s1_rack, r.s1_node, r.s1_card, A,
              r.s2_rack, r.s2_node, r.s2_card, r.p2, B>> >>
    ELSE IF r.s2_node_num = nA /\ r.s1_node_num = nB
    THEN << <<r.p2, r.s2_rack, r.s2_node, r.s2_card, A,
              r.s1_rack, r.s1_node, r.s1_card, r.p1, B>> >>
    ELSE <<>>

\* mutant: a row matched from its second side is reported with the row's
\* ports in table order instead of swapped
BetweenExternalStep_noSwap(r, nA, cA, A, nB, cB, B) ==
    IF /\ r.s1_node_num = nA /\ r.s1_card_num = cA
       /\ r.s2_node_num = nB /\ r.s2_card_num = cB
    THEN << <<r.p1, r.s1_rack, r.s1_node, r.s1_card, A,
              r.s2_rack, r.s2_node, r.s2_card, r.p2, B>> >>
    ELSE IF /\ r.s2_node_num = nA /\ r.s2_card_num = cA
            /\ r.s1_node_num = nB /\ r.s1_card_num = cB
    THEN << <<r.p1, r.s2_rack, r.s2_node, r.s2_card, A,
              r.s1_rack, r.s1_node, r.s1_card, r.p2, B>> >>
    ELSE <<>>

\* mutant: a row matches only when neither side is in the next rack
BetweenExternalStep_sameRackOnly(r, nA, cA, A, nB, cB, B) ==
    IF /\ r.s1_node_num = nA /\ r.s1_card_num = cA
       /\ r.s2_node_num = nB /\ r.s2_card_num = cB
       /\ r.s1_rack = "RX" /\ r.s2_rack = "RX"
    THEN << <<r.p1, r.s1_rack, r.s1_node, r.s1_card, A,
              r.s2_rack, r.s2_node, r.s2_card, r.p2, B>> >>
    ELSE IF /\ r.s2_node_num = nA /\ r.s2_card_num = cA
            /\ r.s1_node_num = nB /\ r.s1_card_num = cB
            /\ r.s1_rack = "RX" /\ r.s2_rack = "RX"
    THEN << <<r.p2, r.s2_rack, r.s2_node, r.s2_card, A,
              r.s1_rack, r.s1_node, r.s1_card, r.p1, B>> >>
    ELSE <<>>

\* loop body of find_connections_between_chips, different-node branch
BetweenExternalStep(r, nA, cA, A, nB, cB, B) ==
    IF /\ r.s1_node_num = nA /\ r.s1_card_num = cA
       /\ r.s2_node_num = nB /\ r.s2_card_num = cB
    THEN << <<r.p1, r.s1_rack, r.s1_node, r.s1_card, A,
              r.s2_rack, r.s2_node, r.s2_card, r.p2, B>> >>
    ELSE IF /\ r.s2_node_num = nA /\ r.s2_card_num = cA
            /\ r.s1_node_num = nB /\ r.s1_card_num = cB
    THEN << <<r.p2, r.s2_rack, r.s2_node, r.s2_card, A,
              r.s1_rack, r.s1_node, r.s1_card, r.p1, B>> >>
    ELSE <<>>

BetweenCollected(n, s, A, B) ==
    LET a == map_chip_to_node_card(A, s)
        b == map_chip_to_node_card(B, s)
        int == [i \in 1..Len(internal_connections) |->
                   BetweenInternalStep(internal_connections[i],
                                       a[1], a[2], A, b[1], b[2], B)]
        ext == [i \in 1..Len(external_connections) |->
                   BetweenExternalStep(external_rows[i],
                                       a[1], a[2], A, b[1], b[2], B)]
    IN  IF a[1] = b[1] THEN Collect(int) ELSE Collect(ext)

find_connections_between_chips(n, s, A, B) ==
    SortByPort(BetweenCollected(n, s, A, B))

\* <<card, connector, other card, other connector>> of every internal link
\* from (card, connector)
c2c_internal_connections_by_port(card, connector) ==
    LET Step(conn) ==
            IF conn.card1 = card /\ conn.connector1 = connector
            THEN << <<card, connector, conn.card2, conn.connector2>> >>
            ELSE IF conn.card2 = card /\ conn.connector2 = connector
            THEN << <<card, connector, conn.card1, conn.connector1>> >>
            ELSE <<>>
    IN  Collect([i \in 1..Len(internal_connections) |->
                     Step(internal_connections[i])])

\* int(port_str[1:]) at the top of find_connections_from_port
PortNum(p) == IntOf(Drop(p, 1))

\* loop body of find_connections_from_port over the internal matches
PortInternalStep(m, nA, cA, A, s, n) ==
    LET other_chip == node_card_to_chip(nA, m[3], s, n)
    IN  IF other_chip # None
        THEN << <<m[2], "RX", NodeStr(nA), CardStr(cA), A,
                  "RX", NodeStr(nA), CardStr(m[3]), m[4], other_chip>> >>
        ELSE <<>>

\* mutant: a row is matched on its first side only
PortExternalStep_side1Only(r, nA, cA, A, s, n, port_num) ==
    IF r.s1_node_num = nA /\ r.s1_card_num = cA /\ r.p1 = port_num
    THEN LET other_chip == node_card_to_chip(r.s2_node_num, r.s2_card_num, s, n)
         IN  IF other_chip # None
             THEN << <<r.p1, r.s1_rack, r.s1_node, r.s1_card, A,
                       r.s2_rack, r.s2_node, r.s2_card, r.p2, other_chip>> >>
             ELSE <<>>
    ELSE <<>>

\* loop body of find_connections_from_port over external_connections
PortExternalStep(r, nA, cA, A, s, n, port_num) ==
    IF r.s1_node_num = nA /\ r.s1_card_num = cA /\ r.p1 = port_num
    THEN LET other_chip == node_card_to_chip(r.s2_node_num, r.s2_card_num, s, n)
         IN  IF other_chip # None
             THEN << <<r.p1, r.s1_rack, r.s1_node, r.s1_card, A,
                       r.s2_rack, r.s2_node, r.s2_card, r.p2, other_chip>> >>
             ELSE <<>>
    ELSE IF r.s2_node_num = nA /\ r.s2_card_num = cA /\ r.p2 = port_num
    THEN LET other_chip == node_card_to_chip(r.s1_node_num, r.s1_card_num, s, n)
         IN  IF other_chip # None
             THEN << <<r.p2, r.s2_rack, r.s2_node, r.s2_card, A,
                       r.s1_rack, r.s1_node, r.s1_card, r.p1, other_chip>> >>
             ELSE <<>>
    ELSE <<>>

PortCollected(n, s, A, p) ==
    LET nc       == map_chip_to_node_card(A, s)
        port_num == PortNum(p).val
        matches  == c2c_internal_connections_by_port(nc[2], port_num)
        int      == [i \in 1..Len(matches) |->
                         PortInternalStep(matches[i], nc[1], nc[2], A, s, n)]
        ext      == [i \in 1..Len(external_connections) |->
                         PortExternalStep(external_rows[i], nc[1], nc[2], A,
                                          s, n, port_num)]
    IN  Collect(int) \o Collect(ext)

\* the list returned when int(port_str[1:]) does not raise
find_connections_from_port(n, s, A, p) == SortByPort(PortCollected(n, s, A, p))

(***************************************************************************)
(* Direct calls of the resolver modes                                      *)
(***************************************************************************)

\* the fabric sizes validate_nchips accepts
SupportedNchips == {8, 16, 24, 32, 40, 64, 72}

StartNodes == 1..9

\* largest port number tried in single-port mode (the tables use 0..15)
MaxPort == 16

\* port tokens tried: "P-1", "P0" .. "P<MaxPort>", and the malformed "Px"
PortTokens == {<<"P">> \o IntToStr(p) : p \in -1..MaxPort} \cup {<<"P", "x">>}

NoArg == <<>>

InitCall ==
    /\ argv = <<>>
    /\ pc = "call"
    /\ nchips \in SupportedNchips
    /\ start_node_num \in StartNodes
    /\ A_chip \in 0..(nchips - 1)
    /\ \/ fn = "all" /\ B_chip = None /\ port_str = NoArg
       \/ fn = "between" /\ B_chip \in 0..(nchips - 1) /\ port_str = NoArg
       \/ fn = "port" /\ B_chip = None /\ port_str \in PortTokens
    /\ connections = <<>>
    /\ stdout = <<>>
    /\ raised = "none"
    /\ coord = <<>>
    /\ found = None

CallFindAll ==
    /\ pc = "call" /\ fn = "all"
    /\ connections' = find_all_connections_for_chip(nchips, start_node_num, A_chip)
    /\ pc' = "returned"
    /\ UNCHANGED <<mapper, argv, fn, nchips, start_node_num, A_chip, B_chip, port_str,
                   stdout, raised>>

CallFindBetween ==
    /\ pc = "call" /\ fn = "between"
    /\ connections' = find_connections_between_chips(nchips, start_node_num,
                                                     A_chip, B_chip)
    /\ pc' = "returned"
    /\ UNCHANGED <<mapper, argv, fn, nchips, start_node_num, A_chip, B_chip, port_str,
                   stdout, raised>>

CallFindFromPort ==
    /\ pc = "call" /\ fn = "port"
    /\ IF PortNum(port_str).ok
       THEN /\ connections' = find_connections_from_port(nchips, start_node_num,
                                                         A_chip, port_str)
            /\ pc' = "returned"
            /\ raised' = raised
       ELSE /\ connections' = connections
            /\ pc' = "raised"
            /\ raised' = "ValueError"
    /\ UNCHANGED <<mapper, argv, fn, nchips, start_node_num, A_chip, B_chip, port_str,
                   stdout>>

NextCall == CallFindAll \/ CallFindBetween \/ CallFindFromPort

\* every mode, called directly
Spec == InitCall /\ [][NextCall]_vars

\* the two modes that take one chip
InitChip == InitCall /\ fn \in {"all", "port"}

NextChip == CallFindAll \/ CallFindFromPort

SpecChip == InitChip /\ [][NextChip]_vars

\* enumerate-all mode alone
InitAll == InitCall /\ fn = "all"

SpecAll == InitAll /\ [][CallFindAll]_vars

\* point-to-point mode alone
InitPair == InitCall /\ fn = "between"

SpecPair == InitPair /\ [][CallFindBetween]_vars

(***************************************************************************)
(* Direct calls of the coordinate mapper                                   *)
(***************************************************************************)

\* largest chip index handed to map_chip_to_node_card (it has no upper bound)
MaxChip == 79

InitMapper ==
    /\ argv = <<>>
    /\ pc = "map"
    /\ fn = "none"
    /\ nchips \in SupportedNchips
    /\ start_node_num \in StartNodes
    /\ A_chip \in 0..MaxChip
    /\ B_chip = None
    /\ port_str = NoArg
    /\ connections = <<>>
    /\ stdout = <<>>
    /\ raised = "none"
    /\ coord = <<>>
    /\ found = None

CallMapChip ==
    /\ pc = "map"
    /\ coord' = map_chip_to_node_card(A_chip, start_node_num)
    /\ pc' = "lookup"
    /\ UNCHANGED <<argv, fn, nchips, start_node_num, A_chip, B_chip, port_str,
                   connections, stdout, raised, found>>

CallNodeCardToChip ==
    /\ pc = "lookup"
    /\ found' = node_card_to_chip(coord[1], coord[2], start_node_num, nchips)
    /\ pc' = "returned"
    /\ UNCHANGED <<argv, fn, nchips, start_node_num, A_chip, B_chip, port_str,
                   connections, stdout, raised, coord>>

NextMapper == CallMapChip \/ CallNodeCardToChip

SpecMapper == InitMapper /\ [][NextMapper]_vars

(***************************************************************************)
(* node_card_to_chip called on any coordinate, a chip there or not         *)
(***************************************************************************)

\* largest node number and card number of a coordinate looked up or
\* spelled in a token: one past the ring and one past the cards of a node
MaxNodeTok == 10
MaxCardTok == 8

InitLookup ==
    /\ argv = <<>>
    /\ pc = "lookup"
    /\ fn = "none"
    /\ nchips \in SupportedNchips
    /\ start_node_num \in StartNodes
    /\ A_chip = None
    /\ B_chip = None
    /\ port_str = NoArg
    /\ connections = <<>>
    /\ stdout = <<>>
    /\ raised = "none"
    /\ coord \in (0..MaxNodeTok) \X (0..MaxCardTok)
    /\ found = None

SpecLookup == InitLookup /\ [][CallNodeCardToChip]_vars

(***************************************************************************)
(* Argument parsing                                                        *)
(***************************************************************************)

\* a parser's outcome: the value returned, or the ValueError message raised
Ok(v) == [ok |-> TRUE, val |-> v, err |-> ""]
Err(m) == [ok |-> FALSE, val |-> None, err |-> m]

Contains(s, c) == \E i \in 1..Len(s) : s[i] = c

parse_node_arg(node_arg) ==
    LET raw1 == IF StartsWith(node_arg, <<"g", "n">>) THEN Drop(node_arg, 2)
                ELSE node_arg
        raw2 == IF StartsWith(raw1, <<"N">>) THEN Drop(raw1, 1) ELSE raw1
        n    == IntOf(raw2)
    IN  IF ~n.ok
        THEN Err("Node argument must be a number, or N<number>, or gn<number>.")
        ELSE IF ~(1 <= n.val /\ n.val <= 9)
        THEN Err("Start node must be between 1 and 9.")
        ELSE Ok(n.val)

\* mutant: the lookup result is returned without the None test
parse_chip_arg_noLookupCheck(arg, n, s) ==
    LET chip_int == IntOf(arg)
        parts    == Split(arg, "/")
        node_num == IntOf(Drop(parts[1], 1))
        card_num == IntOf(Drop(parts[2], 1))
        chip     == node_card_to_chip(node_num.val, card_num.val, s, n)
    IN  IF chip_int.ok THEN Ok(chip_int.val)
        ELSE IF ~Contains(arg, "/")
        THEN Err("Chip argument must be either int or 'N<number>/C<number>'.")
        ELSE IF Len(parts) # 2
        THEN Err("too many values to unpack (expected 2)")
        ELSE IF ~(StartsWith(parts[1], <<"N">>) /\ StartsWith(parts[2], <<"C">>))
        THEN Err("Chip argument must be 'N<number>/C<number>'.")
        ELSE IF ~(node_num.ok /\ card_num.ok)
        THEN Err("Invalid node/card numbers in chip argument.")
        ELSE Ok(chip)

parse_chip_arg(arg, n, s) ==
    LET chip_int == IntOf(arg)
        parts    == Split(arg, "/")
        node_num == IntOf(Drop(parts[1], 1))
        card_num == IntOf(Drop(parts[2], 1))
        chip     == node_card_to_chip(node_num.val, card_num.val, s, n)
    IN  IF chip_int.ok THEN Ok(chip_int.val)
        ELSE IF ~Contains(arg, "/")
        THEN Err("Chip argument must be either int or 'N<number>/C<number>'.")
        ELSE IF Len(parts) # 2
        THEN Err("too many values to unpack (expected 2)")
        ELSE IF ~(StartsWith(parts[1], <<"N">>) /\ StartsWith(parts[2], <<"C">>))
        THEN Err("Chip argument must be 'N<number>/C<number>'.")
        ELSE IF ~(node_num.ok /\ card_num.ok)
        THEN Err("Invalid node/card numbers in chip argument.")
        ELSE IF chip = None
        THEN Err("No chip matches the given node/card under current mapping.")
        ELSE Ok(chip)

\* the alternatives of the pattern ^(8|16|24|32|40|64|72)c?$
NchipsAlternatives ==
    {<<"8">>, <<"1", "6">>, <<"2", "4">>, <<"3", "2">>, <<"4", "0">>,
     <<"6", "4">>, <<"7", "2">>}

\* re.match of the pattern: an alternative, an optional "c", and the end of the
\* string or a final newline ($ matches before a trailing newline)
validate_nchips(x) ==
    \E alt \in NchipsAlternatives :
        \E tail \in {<<>>, <<"c">>, <<"\n">>, <<"c", "\n">>} :
            x = alt \o tail

\* int(re.match(r"(\d+)", x).group(1)): the leading run of digits
get_nchips(x) ==
    LET k == CHOOSE i \in 0..Len(x) :
                 /\ \A j \in 1..i : IsDigit(x[j])
                 /\ (i = Len(x) \/ ~IsDigit(x[i + 1]))
    IN  IntOf(SubSeq(x, 1, k)).val

(***************************************************************************)
(* main                                                                    *)
(***************************************************************************)

\* argv here is sys.argv[1:], so len(sys.argv) = Len(argv) + 1

Line(kind, text, arg) == [kind |-> kind, text |-> text, arg |-> arg]

\* the block of usage and example lines printed for too few arguments
UsageLines == <<Line("usage", "Usage:", <<>>)>>

RackStr(rack) == IF rack = "RX" THEN <<"R", "X">> ELSE <<"R", "X", "+", "1">>

\* the f-string of print_connection; "<->" stands for the one character
\* U+2194 between the two sides
FormatConnection(rackA, nA, cA, pA, devA, rackB, nB, cB, pB, devB) ==
    RackStr(rackA) \o <<"/">> \o nA \o <<"/">> \o cA \o <<"/">> \o pA
        \o <<" ", "(", "d", "e", "v", " ">> \o IntToStr(devA)
        \o <<")", " ", "<->", " ">>
        \o RackStr(rackB) \o <<"/">> \o nB \o <<"/">> \o cB \o <<"/">> \o pB
        \o <<" ", "(", "d", "e", "v", " ">> \o IntToStr(devB) \o <<")">>

\* the call of print_connection in main's final loop, for one tuple
print_connection(c) ==
    Line("connection", "",
         FormatConnection(c[2], c[3], c[4], <<"P">> \o IntToStr(c[1]), c[5],
                          c[6], c[7], c[8], <<"P">> \o IntToStr(c[9]), c[10]))

\* mutant: the second argument is never taken for a port
Mode_noPortTest(av) ==
    IF Len(av) = 4 THEN "between"
    ELSE IF Len(av) = 3 THEN "all"
    ELSE "invalid"

\* which branch of main the argument count and second argument select
Mode(av) ==
    IF Len(av) = 4
    THEN IF StartsWith(av[4], <<"P">>) THEN "port" ELSE "between"
    ELSE IF Len(av) = 3 THEN "all"
    ELSE "invalid"

\* mutant: only the upper end of the window is tested
ChipRangeOk_noLower(chip, n) == chip < n

ChipRangeOk(chip, n) == 0 <= chip /\ chip < n

\* if len(sys.argv) < 4: usage, return
MainArgc ==
    /\ pc = "main"
    /\ IF Len(argv) < 3
       THEN /\ stdout' = stdout \o UsageLines
            /\ pc' = "done"
       ELSE /\ stdout' = stdout
            /\ pc' = "nchips"
    /\ UNCHANGED <<mapper, argv, fn, nchips, start_node_num, A_chip, B_chip, port_str,
                   connections, raised>>

\* validate_nchips / get_nchips
MainNchips ==
    /\ pc = "nchips"
    /\ IF validate_nchips(argv[1])
       THEN /\ nchips' = get_nchips(argv[1])
            /\ stdout' = stdout
            /\ pc' = "node"
       ELSE /\ nchips' = nchips
            /\ stdout' = Append(stdout,
                   Line("error",
                        "Error: nchips must be in format [8|16|24|32|40|64|72]c?, got ",
                        argv[1]))
            /\ pc' = "done"
    /\ UNCHANGED <<mapper, argv, fn, start_node_num, A_chip, B_chip, port_str,
                   connections, raised>>

\* try: start_node_num = parse_node_arg(n_arg)
MainNode ==
    /\ pc = "node"
    /\ LET r == parse_node_arg(argv[2])
       IN  IF r.ok
           THEN /\ start_node_num' = r.val
                /\ stdout' = stdout
                /\ pc' = "chips"
           ELSE /\ start_node_num' = start_node_num
                /\ stdout' = Append(stdout, Line("error", r.err, <<>>))
                /\ pc' = "done"
    /\ UNCHANGED <<mapper, argv, fn, nchips, A_chip, B_chip, port_str, connections,
                   raised>>

\* the parse_chip_arg calls of the selected branch, A before B
MainChips ==
    /\ pc = "chips"
    /\ LET m == Mode(argv)
           a == parse_chip_arg(argv[3], nchips, start_node_num)
           b == parse_chip_arg(argv[4], nchips, start_node_num)
       IN  IF m = "invalid"
           THEN /\ stdout' = Append(stdout,
                      Line("error",
                           "Invalid arguments. Must provide another chip, a port, or a single chip.",
                           <<>>))
                /\ pc' = "done"
                /\ UNCHANGED <<A_chip, B_chip, port_str>>
           ELSE IF ~a.ok
           THEN /\ stdout' = Append(stdout, Line("error", a.err, <<>>))
                /\ pc' = "done"
                /\ UNCHANGED <<A_chip, B_chip, port_str>>
           ELSE IF m = "between" /\ ~b.ok
           THEN /\ stdout' = Append(stdout, Line("error", b.err, <<>>))
                /\ pc' = "done"
                /\ UNCHANGED <<A_chip, B_chip, port_str>>
           ELSE /\ A_chip' = a.val
                /\ B_chip' = IF m = "between" THEN b.val ELSE B_chip
                /\ port_str' = IF m = "port" THEN argv[4] ELSE port_str
                /\ stdout' = stdout
                /\ pc' = "range"
    /\ UNCHANGED <<mapper, argv, fn, nchips, start_node_num, connections, raised>>

\* if not (0 <= A_chip < nchips [and 0 <= B_chip < nchips]): error, return
MainRange ==
    /\ pc = "range"
    /\ IF /\ ChipRangeOk(A_chip, nchips)
          /\ (Mode(argv) = "between" => ChipRangeOk(B_chip, nchips))
       THEN /\ stdout' = stdout
            /\ pc' = "resolve"
       ELSE /\ stdout' = Append(stdout,
                   Line("error", "Chip numbers must be between 0 and ",
                        IntToStr(nchips - 1)))
            /\ pc' = "done"
    /\ UNCHANGED <<mapper, argv, fn, nchips, start_node_num, A_chip, B_chip, port_str,
                   connections, raised>>

\* connections = find_...(...): the resolver call of the selected branch
MainResolve ==
    /\ pc = "resolve"
    /\ fn' = Mode(argv)
    /\ IF Mode(argv) = "port" /\ ~PortNum(port_str).ok
       THEN /\ connections' = connections
            /\ raised' = "ValueError"
            /\ pc' = "raised"
       ELSE /\ connections' =
                  IF Mode(argv) = "port"
                  THEN find_connections_from_port(nchips, start_node_num,
                                                  A_chip, port_str)
                  ELSE IF Mode(argv) = "between"
                  THEN find_connections_between_chips(nchips, start_node_num,
                                                      A_chip, B_chip)
                  ELSE find_all_connections_for_chip(nchips, start_node_num,
                                                     A_chip)
            /\ raised' = raised
            /\ pc' = "print"
    /\ UNCHANGED <<mapper, argv, nchips, start_node_num, A_chip, B_chip, port_str,
                   stdout>>

\* for ... in connections: print_connection(...)
\* mutant: the final loop runs over the list backwards
MainPrint_reversed ==
    /\ pc = "print"
    /\ stdout' = stdout \o [i \in 1..Len(connections) |->
                               print_connection(
                                   connections[Len(connections) + 1 - i])]
    /\ pc' = "done"
    /\ UNCHANGED <<mapper, argv, fn, nchips, start_node_num, A_chip, B_chip, port_str,
                   connections, raised>>

\* mutant: an empty result is reported with a message
MainPrint_reportsEmpty ==
    /\ pc = "print"
    /\ stdout' = IF connections = <<>>
                 THEN Append(stdout, Line("error", "No connections found.", <<>>))
                 ELSE stdout \o [i \in 1..Len(connections) |->
                                    print_connection(connections[i])]
    /\ pc' = "done"
    /\ UNCHANGED <<mapper, argv, fn, nchips, start_node_num, A_chip, B_chip, port_str,
                   connections, raised>>

MainPrint ==
    /\ pc = "print"
    /\ stdout' = stdout \o [i \in 1..Len(connections) |->
                               print_connection(connections[i])]
    /\ pc' = "done"
    /\ UNCHANGED <<mapper, argv, fn, nchips, start_node_num, A_chip, B_chip, port_str,
                   connections, raised>>

NextMain ==
    \/ MainArgc
    \/ MainNchips
    \/ MainNode
    \/ MainChips
    \/ MainRange
    \/ MainResolve
    \/ MainPrint

(***************************************************************************)
(* Command lines tried                                                     *)
(***************************************************************************)

NcTokens ==
    {<<"7", "2", "c">>, <<"8">>, <<"1", "6", "c">>, <<"1", "5", "c">>,
     <<"4", "8">>}

NodeTokens ==
    {<<"1">>, <<"N", "5">>, <<"g", "n", "9">>, <<"0">>, <<"1", "0">>,
     <<"g", "n", "N", "3">>, <<"N", "g", "n", "1">>, <<"x">>}

ChipTokens ==
    {<<"0">>, <<"3">>, <<"8">>, <<"7", "1">>, <<"7", "2">>, <<"-", "1">>,
     <<"N", "1", "/", "C", "0">>, <<"N", "2", "/", "C", "0">>,
     <<"N", "5", "/", "C", "7">>, <<"N", "1", "0", "/", "C", "0">>,
     <<"N", "1", "/", "C", "8">>, <<"N", "1", "/", "C", "x">>,
     <<"C", "1", "/", "N", "1">>, <<"N", "1", "/", "C", "0", "/", "P", "5">>,
     <<"a", "b", "c">>}

MainPortTokens ==
    {<<"P", "0">>, <<"P", "5">>, <<"P", "9">>, <<"P", "1", "5">>,
     <<"P", "x">>, <<"P">>}

\* longest command line tried (main takes three or four arguments)
MaxArgs == 5

\* k extra arguments after the fourth
Filler(k) == [i \in 1..k |-> <<"0">>]

ArgvSet ==
    {<<>>}
        \cup {<<x>> : x \in NcTokens}
        \cup {<<x, n>> : x \in NcTokens, n \in NodeTokens}
        \cup {<<x, n, a>> : x \in NcTokens, n \in NodeTokens, a \in ChipTokens}
        \cup {<<x, n, a, b>> : x \in NcTokens, n \in NodeTokens,
                               a \in ChipTokens,
                               b \in ChipTokens \cup MainPortTokens}
        \cup {<<x, n, <<"0">>, <<"8">> >> \o Filler(k) :
                  x \in NcTokens, n \in NodeTokens, k \in 1..(MaxArgs - 4)}

InitMain ==
    /\ argv \in ArgvSet
    /\ pc = "main"
    /\ fn = "none"
    /\ nchips = None
    /\ start_node_num = None
    /\ A_chip = None
    /\ B_chip = None
    /\ port_str = NoArg
    /\ connections = <<>>
    /\ stdout = <<>>
    /\ raised = "none"
    /\ coord = <<>>
    /\ found = None

SpecMain == InitMain /\ [][NextMain]_vars

\* the state main starts in, whatever the command line is
MainStart ==
    /\ pc = "main"
    /\ fn = "none"
    /\ nchips = None
    /\ start_node_num = None
    /\ A_chip = None
    /\ B_chip = None
    /\ port_str = NoArg
    /\ connections = <<>>
    /\ stdout = <<>>
    /\ raised = "none"
    /\ coord = <<>>
    /\ found = None

(***************************************************************************)
(* Command lines whose first argument is any short string                  *)
(***************************************************************************)

\* longest fabric-size token built from the alphabet
MaxNcLen == 4

NcAlphabet == {"8", "1", "6", "7", "2", "0", "c", "\n"}

\* every string over the alphabet up to the length bound, and the sizes
\* the alphabet cannot spell
NcStrings ==
    UNION {[1..k -> NcAlphabet] : k \in 0..MaxNcLen}
        \cup NcTokens
        \cup {<<"2", "4">>, <<"2", "4", "c">>, <<"3", "2">>, <<"3", "2", "c">>,
              <<"4", "0">>, <<"4", "0", "c">>, <<"6", "4">>, <<"6", "4", "c">>,
              <<"5", "6", "c">>, <<"8", "0", "c">>}

\* the arguments after the fabric size
NcRest ==
    {<<<<"1">>, <<"0">> >>,
     <<<<"x">>, <<"0">> >>,
     <<<<"1">>, <<"0">>, <<"P", "5">> >>}

InitNc ==
    /\ argv \in {<<x>> \o r : x \in NcStrings, r \in NcRest}
    /\ MainStart

SpecNc == InitNc /\ [][NextMain]_vars

(***************************************************************************)
(* Command lines whose second argument is any short string                 *)
(***************************************************************************)

\* longest start-node token built from the alphabet
MaxNodeLen == 4

NodeAlphabet == {"g", "n", "N", "1", "9", "0", "-", "x"}

NodeStrings ==
    UNION {[1..k -> NodeAlphabet] : k \in 0..MaxNodeLen} \cup NodeTokens

\* the arguments after the start node
NodeRest == {<<<<"0">> >>, <<<<"0">>, <<"8">> >>}

InitNode ==
    /\ \E x \in {<<"7", "2", "c">>, <<"1", "6">>}, n \in NodeStrings,
          r \in NodeRest :
           argv = <<x, n>> \o r
    /\ MainStart

SpecNode == InitNode /\ [][NextMain]_vars

(***************************************************************************)
(* Command lines naming chip A by coordinate, for every fabric size and    *)
(* start node                                                              *)
(***************************************************************************)

\* the token N<node>/C<card>
CoordTok(node, card) == NodeStr(node) \o <<"/">> \o CardStr(card)

\* the first two arguments for fabric size n and start node s
ArgvHead(n, s) == <<NatToStr(n) \o <<"c">>, NatToStr(s)>>

InitCoord ==
    /\ \E n \in SupportedNchips, s \in StartNodes :
           \E node \in 0..MaxNodeTok, card \in 0..MaxCardTok :
               argv = ArgvHead(n, s) \o <<CoordTok(node, card)>>
    /\ MainStart

SpecCoord == InitCoord /\ [][NextMain]_vars

(***************************************************************************)
(* Well-formed queries: every fabric size, start node and chip of the      *)
(* window, in each of the three modes                                      *)
(***************************************************************************)

\* the port tokens P-1 .. P<MaxPort>
QueryPortTokens == {<<"P">> \o IntToStr(p) : p \in -1..MaxPort}

\* what may follow chip a on the command line: nothing, the chip itself,
\* the chip one node further, or a port
QueryTails(n, a) ==
    {<<>>, <<NatToStr(a)>>, <<NatToStr((a + 8) % n)>>}
        \cup {<<p>> : p \in QueryPortTokens}

InitQuery ==
    /\ \E n \in SupportedNchips, s \in StartNodes :
           \E a \in 0..(n - 1) :
               \E t \in QueryTails(n, a) :
                   argv = ArgvHead(n, s) \o <<NatToStr(a)>> \o t
    /\ MainStart

SpecQuery == InitQuery /\ [][NextMain]_vars

(***************************************************************************)
(* Properties                                                              *)
(***************************************************************************)

\* C1: round trip. For every supported nchips, start node and chip inside
\* [0, nchips), node_card_to_chip applied to the coordinate that
\* map_chip_to_node_card returned gives back exactly the chip.
C1_RoundTrip ==
    (pc = "returned" /\ A_chip < nchips) => found = A_chip

\* C1 witness: the last chip of the full fabric, on a rotated ring where the
\* node number wraps past 9, has been mapped and looked up again.
C1_Witness ==
    /\ pc = "returned"
    /\ nchips = 72 /\ start_node_num = 5 /\ A_chip = 71
    /\ coord = <<4, 7>>
    /\ found = 71

\* the call find_connections_between_chips(72, 1, 0, 8) has returned
ScenarioB ==
    /\ pc = "returned" /\ fn = "between"
    /\ nchips = 72 /\ start_node_num = 1 /\ A_chip = 0 /\ B_chip = 8

\* C2 as stated: in scenario B chips 0 and 8 sit on (node 1, card 0) and
\* (node 2, card 0) and the result is the single connection
\* N1/C0/P15 <-> N2/C0/P4.
C2_ScenarioB_Stated ==
    ScenarioB =>
        /\ map_chip_to_node_card(A_chip, start_node_num) = <<1, 0>>
        /\ map_chip_to_node_card(B_chip, start_node_num) = <<2, 0>>
        /\ connections = << <<15, "RX", <<"N", "1">>, <<"C", "0">>, 0,
                              "RX", <<"N", "2">>, <<"C", "0">>, 4, 8>> >>

\* C2 amended: in scenario B chips 0 and 8 sit on (node 1, card 0) and
\* (node 2, card 0) and the result is the single connection
\* N1/C0/P5 <-> N2/C0/P0 (table row 104); N1/C0/P15 is cabled to N3/C0/P4.
C2_ScenarioB ==
    ScenarioB =>
        /\ map_chip_to_node_card(A_chip, start_node_num) = <<1, 0>>
        /\ map_chip_to_node_card(B_chip, start_node_num) = <<2, 0>>
        /\ connections = << <<5, "RX", <<"N", "1">>, <<"C", "0">>, 0,
                              "RX", <<"N", "2">>, <<"C", "0">>, 0, 8>> >>

\* C2 witness: scenario B has run and returned one connection.
C2_Witness == ScenarioB /\ Len(connections) = 1

\* a connection with side A and side B exchanged
SwapSides(c) == <<c[9], c[6], c[7], c[8], c[10], c[2], c[3], c[4], c[1], c[5]>>

\* C3: symmetry of point-to-point mode. The list returned for (a, b) equals
\* the list returned for (b, a) with the two sides of every element swapped.
C3_Symmetry ==
    (pc = "returned" /\ fn = "between") =>
        LET rev == find_connections_between_chips(nchips, start_node_num,
                                                  B_chip, A_chip)
        IN  connections = [i \in 1..Len(rev) |-> SwapSides(rev[i])]

\* C3 witness: a cable to the next rack, queried from its second side:
\* chip 0 (N1/C0, the "Next" side of row 129) to chip 64 (N9/C0).
C3_Witness ==
    /\ pc = "returned" /\ fn = "between"
    /\ nchips = 72 /\ start_node_num = 1 /\ A_chip = 0 /\ B_chip = 64
    /\ connections = << <<0, "RX+1", <<"N", "1">>, <<"C", "0">>, 0,
                          "RX", <<"N", "9">>, <<"C", "0">>, 5, 64>> >>

\* the coordinate of the queried chip
CoordA == map_chip_to_node_card(A_chip, start_node_num)

\* some chip of the window [0, nchips) sits at (node, card)
InWindow(node, card) ==
    \E c \in 0..(nchips - 1) :
        map_chip_to_node_card(c, start_node_num) = <<node, card>>

\* the elements of connections: side-A port p, side B at (node, card, port)
\* given as the strings and numbers of the tuple
Matching(p, nodeB, cardB, portB) ==
    {i \in 1..Len(connections) :
         /\ connections[i][1] = p
         /\ connections[i][7] = nodeB
         /\ connections[i][8] = cardB
         /\ connections[i][9] = portB}

\* C4: window closure. Every connection find_all_connections_for_chip
\* returns has its side-B chip inside [0, nchips); an external row touching
\* the chip whose partner coordinate has no chip in the window leaves no
\* element in the result, and the call returns normally.
C4_WindowClosure ==
    (pc = "returned" /\ fn = "all") =>
        /\ raised = "none"
        /\ \A i \in 1..Len(connections) :
               connections[i][10] \in 0..(nchips - 1)
        /\ \A k \in 1..Len(external_rows) :
               LET r == external_rows[k]
               IN  /\ ( /\ <<r.s1_node_num, r.s1_card_num>> = CoordA
                        /\ ~InWindow(r.s2_node_num, r.s2_card_num) )
                       => Matching(r.p1, r.s2_node, r.s2_card, r.p2) = {}
                   /\ ( /\ <<r.s2_node_num, r.s2_card_num>> = CoordA
                        /\ ~InWindow(r.s1_node_num, r.s1_card_num) )
                       => Matching(r.p2, r.s1_node, r.s1_card, r.p1) = {}

\* C4 witness: a two-node fabric, chip 0 on N1/C0. The cable to N2/C0 is
\* kept (partner chip 8); the cable N1/C0/P15 - N3/C0/P4 is dropped.
C4_Witness ==
    /\ pc = "returned" /\ fn = "all"
    /\ nchips = 16 /\ start_node_num = 1 /\ A_chip = 0
    /\ Len(connections) = 8
    /\ connections[1] = <<5, "RX", <<"N", "1">>, <<"C", "0">>, 0,
                          "RX", <<"N", "2">>, <<"C", "0">>, 0, 8>>
    /\ \A i \in 1..Len(connections) : connections[i][1] # 15

\* the list the returning resolver had collected before its sort
Collected ==
    IF fn = "all" THEN AllCollected(nchips, start_node_num, A_chip)
    ELSE IF fn = "between"
    THEN BetweenCollected(nchips, start_node_num, A_chip, B_chip)
    ELSE PortCollected(nchips, start_node_num, A_chip, port_str)

\* the elements of seq whose side-A port is p, in order
WithPort(seq, p) ==
    LET Test(c) == c[1] = p
    IN  SelectSeq(seq, Test)

\* C5: sort order. The list each of the three modes returns is
\* non-decreasing in the side-A port, and for every port value the
\* elements carrying it are those collected (internal rows first, then
\* external rows), in their collection order.
C5_SortOrder ==
    pc = "returned" =>
        LET col == Collected
        IN  /\ \A i \in 1..(Len(connections) - 1) :
                   connections[i][1] <= connections[i + 1][1]
            /\ Len(connections) = Len(col)
            /\ \A i \in 1..Len(col) :
                   WithPort(connections, col[i][1]) = WithPort(col, col[i][1])

\* C5 witness: chip 32 of the full fabric; the eleven collected connections
\* were not in port order (the internal rows come first, starting at
\* connector 14) and the returned list starts at port 0.
C5_Witness ==
    /\ pc = "returned" /\ fn = "all"
    /\ nchips = 72 /\ start_node_num = 1 /\ A_chip = 32
    /\ Len(connections) = 11
    /\ Collected[1][1] = 14
    /\ connections[1][1] = 0
    /\ connections[11][1] = 15

\* C6: completeness of enumerate-all mode. Chip 32 of the full fabric at
\* start node 1 sits on (node 5, card 0). In general every internal row
\* touching the chip's card, and every external row touching its
\* (node, card) on either side whose partner coordinate has a chip in the
\* window, appears in the result exactly once, and nothing else appears.
C6_Completeness ==
    (pc = "returned" /\ fn = "all") =>
        LET nA   == CoordA[1]
            cA   == CoordA[2]
            int1 == {k \in 1..Len(internal_connections) :
                         internal_connections[k].card1 = cA}
            int2 == {k \in 1..Len(internal_connections) :
                         internal_connections[k].card2 = cA}
            ext1 == {k \in 1..Len(external_rows) :
                         /\ external_rows[k].s1_node_num = nA
                         /\ external_rows[k].s1_card_num = cA
                         /\ InWindow(external_rows[k].s2_node_num,
                                     external_rows[k].s2_card_num)}
            ext2 == {k \in 1..Len(external_rows) :
                         /\ external_rows[k].s2_node_num = nA
                         /\ external_rows[k].s2_card_num = cA
                         /\ InWindow(external_rows[k].s1_node_num,
                                     external_rows[k].s1_card_num)}
        IN  /\ (nchips = 72 /\ start_node_num = 1 /\ A_chip = 32)
                   => CoordA = <<5, 0>>
            /\ \A k \in int1 :
                   LET e == internal_connections[k]
                   IN  Cardinality(Matching(e.connector1, NodeStr(nA),
                                            CardStr(e.card2), e.connector2)) = 1
            /\ \A k \in int2 :
                   LET e == internal_connections[k]
                   IN  Cardinality(Matching(e.connector2, NodeStr(nA),
                                            CardStr(e.card1), e.connector1)) = 1
            /\ \A k \in ext1 :
                   LET r == external_rows[k]
                   IN  Cardinality(Matching(r.p1, r.s2_node, r.s2_card,
                                            r.p2)) = 1
            /\ \A k \in ext2 :
                   LET r == external_rows[k]
                   IN  Cardinality(Matching(r.p2, r.s1_node, r.s1_card,
                                            r.p1)) = 1
            /\ Len(connections) = Cardinality(int1) + Cardinality(int2)
                                      + Cardinality(ext1) + Cardinality(ext2)

\* C6 witness: scenario A has run: chip 32 on N5/C0, seven internal links
\* and four cables, two of them found from the row's second side (P0, P4).
C6_Witness ==
    /\ pc = "returned" /\ fn = "all"
    /\ nchips = 72 /\ start_node_num = 1 /\ A_chip = 32
    /\ Len(connections) = 11
    /\ connections[1] = <<0, "RX", <<"N", "5">>, <<"C", "0">>, 32,
                          "RX", <<"N", "4">>, <<"C", "0">>, 5, 24>>
    /\ connections[2] = <<4, "RX", <<"N", "5">>, <<"C", "0">>, 32,
                          "RX", <<"N", "3">>, <<"C", "0">>, 15, 16>>

\* C7: scenario C. In a single-node fabric (nchips = 8) every returned
\* connection is an internal link of the chip's own node, which is the
\* start node, and no external row contributes an element.
C7_SingleNode ==
    (pc = "returned" /\ fn = "all" /\ nchips = 8) =>
        /\ CoordA[1] = start_node_num
        /\ \A i \in 1..Len(connections) :
               LET c == connections[i]
               IN  /\ c[2] = "RX" /\ c[6] = "RX"
                   /\ c[3] = NodeStr(start_node_num)
                   /\ c[7] = NodeStr(start_node_num)
                   /\ c[4] = CardStr(CoordA[2])
                   /\ c[10] \in 0..7
                   /\ \E k \in 1..Len(internal_connections) :
                          LET e == internal_connections[k]
                          IN  \/ /\ e.card1 = CoordA[2]
                                 /\ c[1] = e.connector1
                                 /\ c[8] = CardStr(e.card2)
                                 /\ c[9] = e.connector2
                              \/ /\ e.card2 = CoordA[2]
                                 /\ c[1] = e.connector2
                                 /\ c[8] = CardStr(e.card1)
                                 /\ c[9] = e.connector1
        /\ \A k \in 1..Len(external_rows) :
               LET r == external_rows[k]
               IN  /\ <<r.s1_node_num, r.s1_card_num>> = CoordA
                       => Matching(r.p1, r.s2_node, r.s2_card, r.p2) = {}
                   /\ <<r.s2_node_num, r.s2_card_num>> = CoordA
                       => Matching(r.p2, r.s1_node, r.s1_card, r.p1) = {}

\* C7 witness: nchips = 8, start node 1, chip 3: seven internal links of
\* N1/C3 have been returned, the first one to N1/C2.
C7_Witness ==
    /\ pc = "returned" /\ fn = "all"
    /\ nchips = 8 /\ start_node_num = 1 /\ A_chip = 3
    /\ Len(connections) = 7
    /\ connections[1] = <<6, "RX", <<"N", "1">>, <<"C", "3">>, 3,
                          "RX", <<"N", "1">>, <<"C", "2">>, 12, 2>>

\* C8: single-port mode is enumerate-all mode filtered by port. For an
\* integer port p the list find_connections_from_port returns is the
\* sub-list of find_all_connections_for_chip, for the same chip, of the
\* elements whose side-A port is p, in the same order.
C8_PortIsFilteredAll ==
    (pc = "returned" /\ fn = "port") =>
        connections =
            WithPort(find_all_connections_for_chip(nchips, start_node_num,
                                                   A_chip),
                     PortNum(port_str).val)

\* C8 witness: chip 32 of the full fabric, port P4, which row 94 cables
\* from its second side: one connection, to N3/C0/P15.
C8_Witness ==
    /\ pc = "returned" /\ fn = "port"
    /\ nchips = 72 /\ start_node_num = 1 /\ A_chip = 32
    /\ port_str = <<"P", "4">>
    /\ connections = << <<4, "RX", <<"N", "5">>, <<"C", "0">>, 32,
                          "RX", <<"N", "3">>, <<"C", "0">>, 15, 16>> >>

\* main has ended, by returning or by an exception nobody caught
Terminated == pc \in {"done", "raised"}

\* the command line has three or four arguments, a valid fabric size and a
\* valid start node
ValidHead(av) ==
    /\ Len(av) \in {3, 4}
    /\ validate_nchips(av[1])
    /\ parse_node_arg(av[2]).ok

\* the positions of the chip arguments of a command line
ChipArgs(av) == IF Mode(av) = "between" THEN {3, 4} ELSE {3}

\* some argument of a three- or four-argument command line fails its parse
\* or its validation: the fabric size, the start node, a chip or coordinate
\* token (parse or range), or the port token ("P" not followed by an int)
ArgFailure(av) ==
    /\ Len(av) \in {3, 4}
    /\ \/ ~validate_nchips(av[1])
       \/ ~parse_node_arg(av[2]).ok
       \/ /\ ValidHead(av)
          /\ LET n == get_nchips(av[1])
                 s == parse_node_arg(av[2]).val
             IN  \/ \E k \in ChipArgs(av) :
                        \/ ~parse_chip_arg(av[k], n, s).ok
                        \/ ~ChipRangeOk(parse_chip_arg(av[k], n, s).val, n)
                 \/ Mode(av) = "port" /\ ~PortNum(av[4]).ok

\* C9 as stated: on any parse or validation failure of any argument,
\* a malformed port token included, main prints a usage or error message
\* and terminates without emitting a connection line.
C9_FailurePrintsMessage ==
    (Terminated /\ ArgFailure(argv)) =>
        /\ pc = "done"
        /\ raised = "none"
        /\ stdout # <<>>
        /\ \A i \in 1..Len(stdout) : stdout[i].kind \in {"usage", "error"}

\* some chip argument is an integer outside [0, nchips)
OutOfRange(av) ==
    /\ ValidHead(av)
    /\ \E k \in ChipArgs(av) :
           /\ IntOf(av[k]).ok
           /\ ~(0 <= IntOf(av[k]).val /\ IntOf(av[k]).val < get_nchips(av[1]))

\* C10: chip-range validation precedes resolution. When a chip argument is
\* an integer outside [0, nchips), negative ones included, main never
\* reaches a resolver call and ends having printed one error line; a
\* query that resolved to zero connections ends having printed nothing,
\* so the two outcomes differ.
C10_RangeBeforeResolve ==
    /\ OutOfRange(argv) =>
           /\ fn = "none"
           /\ pc \notin {"resolve", "print", "raised"}
           /\ pc = "done" =>
                  /\ Len(stdout) = 1
                  /\ stdout[1].kind = "error"
    /\ (pc = "done" /\ fn # "none" /\ connections = <<>>) => stdout = <<>>

\* C10 witness: "72c 1 0 -1" has ended: both chips parsed, the negative
\* one was refused by the range check, no resolver ran.
C10_Witness ==
    /\ pc = "done"
    /\ argv = << <<"7", "2", "c">>, <<"1">>, <<"0">>, <<"-", "1">> >>
    /\ A_chip = 0 /\ B_chip = -1
    /\ fn = "none"
    /\ stdout = <<Line("error", "Chip numbers must be between 0 and ",
                        <<"7", "1">>)>>

\* the fabric-size tokens the documentation names: a supported size,
\* optionally followed by "c"
StatedNc ==
    {NatToStr(n) : n \in SupportedNchips}
        \cup {NatToStr(n) \o <<"c">> : n \in SupportedNchips}

\* the size a documented token spells
StatedNcValue(tok) ==
    CHOOSE n \in SupportedNchips : tok \in {NatToStr(n), NatToStr(n) \o <<"c">>}

\* C11 as stated: the fabric-size token of a command line is accepted
\* exactly when it is one of 8, 16, 24, 32, 40, 64, 72 optionally followed
\* by "c", and nchips is then that integer; for any other token main ends
\* with the configuration error as its only output and runs no resolver,
\* whatever the other arguments are.
C11_NcValidation ==
    (Len(argv) >= 3 /\ pc \notin {"main", "nchips"}) =>
        IF argv[1] \in StatedNc
        THEN nchips = StatedNcValue(argv[1])
        ELSE /\ pc = "done"
             /\ fn = "none"
             /\ nchips = None
             /\ stdout =
                    <<Line("error",
                           "Error: nchips must be in format [8|16|24|32|40|64|72]c?, got ",
                           argv[1])>>

\* C11 on the tokens that do not end in a line feed
C11_NcValidation_NoLineFeed ==
    (Len(argv[1]) > 0 /\ argv[1][Len(argv[1])] = "\n") \/ C11_NcValidation

\* a token ending in a line feed was accepted and its query printed
C11_LineFeedAccepted ==
    /\ pc = "done"
    /\ argv = << <<"7", "2", "c", "\n">>, <<"1">>, <<"0">> >>
    /\ nchips = 72
    /\ fn = "all"
    /\ Len(stdout) = 11

\* the chips of the window of n chips that start node s places at
\* (node, card)
ChipsAt(node, card, n, s) ==
    {c \in 0..(n - 1) : map_chip_to_node_card(c, s) = <<node, card>>}

\* C12: a coordinate lookup that fails is an error. When chip A is named
\* N<node>/C<card> and no chip of the window sits there under the active
\* fabric size and start node, parse_chip_arg raises the lookup error:
\* main ends with that message as its only output, no chip is bound and no
\* resolver runs, so the outcome is not an empty result. N10/C<card> is
\* refused in this way for every start node and fabric size. A coordinate
\* that has a chip binds that chip and ends without an error line.
C12_LookupFailure ==
    (pc \notin {"main", "nchips", "node", "chips"}) =>
        \A node \in 0..MaxNodeTok, card \in 0..MaxCardTok :
            argv[3] = CoordTok(node, card) =>
                IF ChipsAt(node, card, nchips, start_node_num) = {}
                THEN /\ pc = "done"
                     /\ fn = "none"
                     /\ A_chip = None
                     /\ stdout =
                            <<Line("error",
                                   "No chip matches the given node/card under current mapping.",
                                   <<>>)>>
                ELSE /\ node # 10
                     /\ A_chip \in ChipsAt(node, card, nchips, start_node_num)
                     /\ \A i \in 1..Len(stdout) : stdout[i].kind = "connection"

\* C12 witness: "72c 9 N10/C0" has ended with the lookup error, although
\* the window of 72 chips fills all nine nodes.
C12_Witness ==
    /\ pc = "done"
    /\ argv = ArgvHead(72, 9) \o <<CoordTok(10, 0)>>
    /\ nchips = 72 /\ start_node_num = 9
    /\ fn = "none"
    /\ stdout = <<Line("error",
                       "No chip matches the given node/card under current mapping.",
                       <<>>)>>

\* no row of either table has an endpoint at (node, card, port p): the
\* internal rows are the same on every node, the external rows name theirs
NoWiring(node, card, p) ==
    /\ \A i \in 1..Len(internal_connections) :
           LET r == internal_connections[i]
           IN  /\ ~(r.card1 = card /\ r.connector1 = p)
               /\ ~(r.card2 = card /\ r.connector2 = p)
    /\ \A i \in 1..Len(external_rows) :
           LET r == external_rows[i]
           IN  /\ ~(r.s1_node_num = node /\ r.s1_card_num = card /\ r.p1 = p)
               /\ ~(r.s2_node_num = node /\ r.s2_card_num = card /\ r.p2 = p)

\* C13: empty is not an error. For every supported fabric size, start
\* node, chip of the window and integer port token, main raises nothing
\* and prints no usage or error line; the resolver of the selected mode
\* returns a list, which is empty for a chip paired with itself and for a
\* port no table row has at the chip's coordinate; main prints exactly one
\* line per returned connection, so an empty result prints nothing at all.
C13_EmptyIsNotAnError ==
    /\ raised = "none" /\ pc # "raised"
    /\ \A i \in 1..Len(stdout) : stdout[i].kind = "connection"
    /\ pc \in {"print", "done"} =>
           LET at == map_chip_to_node_card(A_chip, start_node_num)
           IN  /\ fn \in {"all", "between", "port"}
               /\ (fn = "between" /\ A_chip = B_chip) => connections = <<>>
               /\ (fn = "port" /\ NoWiring(at[1], at[2], PortNum(port_str).val))
                      => connections = <<>>
    /\ pc = "done" => Len(stdout) = Len(connections)

\* C13 witness: "72c 1 0 0", chip 0 paired with itself, has ended: the
\* resolver ran and returned no connection, nothing was printed and main
\* returned normally.
C13_Witness ==
    /\ pc = "done"
    /\ argv = ArgvHead(72, 1) \o << <<"0">>, <<"0">> >>
    /\ fn = "between"
    /\ connections = <<>>
    /\ stdout = <<>>
    /\ raised = "none"

\* C14: map_chip_to_node_card is total and follows the rotation formula.
\* For every chip >= 0 (tried up to MaxChip, past a whole turn of the ring)
\* and every start node 1..9 the pair it returns is
\* (((chip div 8 + startNode - 1) mod 9) + 1, chip mod 8): the node is in
\* [1,9], the card in [0,7], chip = 8 * (chip div 8) + card, the node is
\* chip div 8 places after the start node round the ring of nine, and
\* chips 0..7 land on the start node itself.
C14_RotationFormula ==
    (pc \in {"lookup", "returned"}) =>
        LET node == coord[1]
            card == coord[2]
            q    == A_chip \div 8
        IN  /\ coord = <<(((A_chip \div 8) + start_node_num - 1) % 9) + 1,
                         A_chip % 8>>
            /\ node \in 1..9
            /\ card \in 0..7
            /\ A_chip = 8 * q + card
            /\ (node - start_node_num - q) % 9 = 0
            /\ A_chip <= 7 => node = start_node_num

\* C14 witness: chip 75, beyond the largest fabric, with start node 9:
\* 75 div 8 = 9 is a whole turn of the ring, so it maps to N9/C3.
C14_Witness ==
    /\ pc = "lookup"
    /\ A_chip = 75 /\ start_node_num = 9
    /\ coord = <<9, 3>>

\* C15: the mapping is injective over the window. For every supported
\* fabric size and start node, no other chip of [0, nchips) maps to the
\* coordinate of a chip of the window.
C15_Injective ==
    (pc \in {"lookup", "returned"} /\ A_chip < nchips) =>
        \A c \in 0..(nchips - 1) :
            map_chip_to_node_card(c, start_node_num) = coord => c = A_chip

\* C15 witness: chip 0 and chip 71 of the full fabric with start node 2:
\* the window fills the ring exactly once, chip 71 sits on N1/C7, the node
\* just before the start node, and only chip 71 maps there.
C15_Witness ==
    /\ pc = "returned"
    /\ nchips = 72 /\ start_node_num = 2 /\ A_chip = 71
    /\ coord = <<1, 7>>
    /\ ChipsAt(1, 7, 72, 2) = {71}

\* C18: node_card_to_chip is a first-match inverse scan. For any node,
\* card, start node and fabric size it returns the smallest chip of
\* [0, nchips) that map_chip_to_node_card sends to (node, card), and None
\* exactly when no chip of the window maps there; a returned chip maps back
\* to (node, card). In closed form the chip is
\* ((node - startNode) mod 9) * 8 + card, returned when the node is in
\* [1,9], the card in [0,7] and that number is below nchips.
C18_FirstMatchInverse ==
    (pc = "returned" /\ A_chip = None) =>
        LET node == coord[1]
            card == coord[2]
            hits == ChipsAt(node, card, nchips, start_node_num)
            c    == ((node - start_node_num) % 9) * 8 + card
        IN  /\ (found = None) <=> (hits = {})
            /\ found # None =>
                   /\ found \in hits
                   /\ \A d \in hits : found <= d
                   /\ map_chip_to_node_card(found, start_node_num) = coord
            /\ (found = None) <=>
                   ~(node \in 1..9 /\ card \in 0..7 /\ c < nchips)
            /\ found # None => found = c

\* C18 witness: N1/C7 looked up in the 16-chip fabric that starts at node
\* 9: the window wraps from node 9 to node 1 and the scan returns its last
\* chip, 15.
C18_Witness ==
    /\ pc = "returned" /\ A_chip = None
    /\ nchips = 16 /\ start_node_num = 9
    /\ coord = <<1, 7>>
    /\ found = 15

\* the (card, connector) endpoints of internal row i, first then second
InternalEndpoints(i) ==
    LET r == internal_connections[i]
    IN  <<<<r.card1, r.connector1>>, <<r.card2, r.connector2>> >>

\* the (node, card, port) endpoints of external row i, by their numbers
ExternalEndpoints(i) ==
    LET r == external_rows[i]
    IN  <<<<r.s1_node_num, r.s1_card_num, r.p1>>,
          <<r.s2_node_num, r.s2_card_num, r.p2>> >>

\* no (card, connector) endpoint occurs twice in internal_connections, in
\* the same row or in two rows
InternalEndpointsUnique ==
    \A i, j \in 1..Len(internal_connections) : \A a, b \in 1..2 :
        InternalEndpoints(i)[a] = InternalEndpoints(j)[b] => (i = j /\ a = b)

\* no (node, card, port) endpoint occurs twice in external_connections
ExternalEndpointsUnique ==
    \A i, j \in 1..Len(external_rows) : \A a, b \in 1..2 :
        ExternalEndpoints(i)[a] = ExternalEndpoints(j)[b] => (i = j /\ a = b)

\* C16: table uniqueness. Whenever a query reads the tables, no
\* (card, connector) endpoint occurs in more than one edge of the 28 rows
\* of internal_connections, and no (node, card, port) endpoint, compared
\* by its numbers over both sides of all 144 rows, occurs in more than one
\* edge side of external_connections.
C16_TableUniqueness ==
    (pc \in {"call", "returned", "raised"}) =>
        /\ Len(internal_connections) = 28
        /\ Len(external_rows) = 144
        /\ InternalEndpointsUnique
        /\ ExternalEndpointsUnique

\* C16 witness: every connection of chip 0 of the full fabric has been
\* returned: eleven of them, on eleven different ports of side A.
C16_Witness ==
    /\ pc = "returned" /\ fn = "all"
    /\ nchips = 72 /\ start_node_num = 1 /\ A_chip = 0
    /\ Len(connections) = 11
    /\ Cardinality({connections[i][1] : i \in 1..Len(connections)}) = 11

\* what is left of a start-node token under each documented form: the
\* token itself, the token without a leading "N", the token without a
\* leading "gn"
StatedNodeBodies(tok) ==
    {tok}
        \cup (IF StartsWith(tok, <<"N">>) THEN {Drop(tok, 1)} ELSE {})
        \cup (IF StartsWith(tok, <<"g", "n">>) THEN {Drop(tok, 2)} ELSE {})

\* the token has one of the forms <int>, "N"<int>, "gn"<int> with the
\* integer in [1,9]
StatedNode(tok) ==
    \E b \in StatedNodeBodies(tok) :
        IntOf(b).ok /\ 1 <= IntOf(b).val /\ IntOf(b).val <= 9

\* the integer such a token spells
StatedNodeValue(tok) ==
    IntOf(CHOOSE b \in StatedNodeBodies(tok) : IntOf(b).ok).val

\* C17 as stated: after a valid fabric size, the start-node token is
\* accepted exactly when it is <int>, "N"<int> or "gn"<int> with the
\* integer in [1,9], and start_node_num is then that integer; every other
\* token, any other combination of prefixes included, ends main with one
\* error line, no start node bound and no resolver run.
C17_NodeParsing ==
    (pc \notin {"main", "nchips", "node"} /\ nchips # None) =>
        IF StatedNode(argv[2])
        THEN start_node_num = StatedNodeValue(argv[2])
        ELSE /\ pc = "done"
             /\ fn = "none"
             /\ start_node_num = None
             /\ Len(stdout) = 1
             /\ stdout[1].kind = "error"

\* C17 on the tokens that do not begin with "gnN"
C17_NodeParsing_NoDoublePrefix ==
    StartsWith(argv[2], <<"g", "n", "N">>) \/ C17_NodeParsing

\* a token with both prefixes was accepted and its query printed
C17_DoublePrefixAccepted ==
    /\ pc = "done"
    /\ argv = << <<"7", "2", "c">>, <<"g", "n", "N", "9">>, <<"0">> >>
    /\ start_node_num = 9
    /\ fn = "all"
    /\ Len(stdout) = 11

\* the token names a chip of the window of n chips with start node s
ChipOk(tok, n, s) ==
    /\ parse_chip_arg(tok, n, s).ok
    /\ ChipRangeOk(parse_chip_arg(tok, n, s).val, n)

\* C19: mode dispatch. Fewer than three arguments: main prints the usage
\* text and runs no resolver. With a valid fabric size and start node: more
\* than four arguments end with the invalid-arguments message and no
\* resolver; one chip argument runs find_all_connections_for_chip; a
\* second argument starting with "P" runs find_connections_from_port; any
\* other second argument runs find_connections_between_chips. No other
\* resolver than the selected one is ever run, and the selected one is run
\* whenever the chip arguments name chips of the window.
C19_ModeDispatch ==
    /\ Len(argv) < 3 =>
           /\ fn = "none"
           /\ Terminated => (pc = "done" /\ stdout = UsageLines)
    /\ (Len(argv) >= 3 /\ validate_nchips(argv[1])
            /\ parse_node_arg(argv[2]).ok) =>
           LET n == get_nchips(argv[1])
               s == parse_node_arg(argv[2]).val
           IN  /\ Len(argv) > 4 =>
                      /\ fn = "none"
                      /\ Terminated =>
                             /\ pc = "done"
                             /\ stdout =
                                    <<Line("error",
                                           "Invalid arguments. Must provide another chip, a port, or a single chip.",
                                           <<>>)>>
               /\ Len(argv) = 3 =>
                      /\ fn \in {"none", "all"}
                      /\ (Terminated /\ ChipOk(argv[3], n, s)) => fn = "all"
               /\ (Len(argv) = 4 /\ StartsWith(argv[4], <<"P">>)) =>
                      /\ fn \in {"none", "port"}
                      /\ (Terminated /\ ChipOk(argv[3], n, s)) => fn = "port"
               /\ (Len(argv) = 4 /\ ~StartsWith(argv[4], <<"P">>)) =>
                      /\ fn \in {"none", "between"}
                      /\ (Terminated /\ ChipOk(argv[3], n, s)
                              /\ ChipOk(argv[4], n, s)) => fn = "between"

\* C19 witness: "16c N5 3 P15" has ended: the second argument starts with
\* "P", so find_connections_from_port ran, for chip 3 and port 15.
C19_Witness ==
    /\ pc = "done"
    /\ argv = << <<"1", "6", "c">>, <<"N", "5">>, <<"3">>, <<"P", "1", "5">> >>
    /\ fn = "port"
    /\ A_chip = 3 /\ port_str = <<"P", "1", "5">>
    /\ B_chip = None

\* one side of a printed line: rackLabel/N<node>/C<card>/P<port> (dev <chip>)
SideText(rack, node, card, port, dev) ==
    (IF rack = "RX" THEN <<"R", "X">> ELSE <<"R", "X", "+", "1">>)
        \o <<"/">> \o node \o <<"/">> \o card \o <<"/", "P">> \o IntToStr(port)
        \o <<" ", "(", "d", "e", "v", " ">> \o IntToStr(dev) \o <<")">>

\* C21: presentation preserves the resolver result. When a query has
\* succeeded and main has ended, it has printed exactly one line per
\* connection of the resolver's list, in the list's order, nothing else;
\* line i shows side A of connection i and then its side B, each as
\* rackLabel/N<node>/C<card>/P<port> (dev <chip>).
C21_PresentationPreserves ==
    (pc = "done" /\ fn # "none") =>
        /\ Len(stdout) = Len(connections)
        /\ \A i \in 1..Len(connections) :
               LET c == connections[i]
               IN  /\ stdout[i].kind = "connection"
                   /\ stdout[i].arg =
                          SideText(c[2], c[3], c[4], c[1], c[5])
                              \o <<" ", "<->", " ">>
                              \o SideText(c[6], c[7], c[8], c[9], c[10])
                   /\ c[3][1] = "N" /\ c[4][1] = "C"
                   /\ c[7][1] = "N" /\ c[8][1] = "C"

\* C21 witness: "72c 1 0" has ended with its eleven lines; the first is
\* the cable of port 0 and the last the cable of port 15.
C21_Witness ==
    /\ pc = "done"
    /\ argv = ArgvHead(72, 1) \o << <<"0">> >>
    /\ Len(stdout) = 11
    /\ stdout[1].arg =
           <<"R", "X", "+", "1", "/", "N", "1", "/", "C", "0", "/", "P", "0",
             " ", "(", "d", "e", "v", " ", "0", ")", " ", "<->", " ",
             "R", "X", "/", "N", "9", "/", "C", "0", "/", "P", "5",
             " ", "(", "d", "e", "v", " ", "6", "4", ")">>
    /\ stdout[11].arg =
           <<"R", "X", "/", "N", "1", "/", "C", "0", "/", "P", "1", "5",
             " ", "(", "d", "e", "v", " ", "0", ")", " ", "<->", " ",
             "R", "X", "/", "N", "3", "/", "C", "0", "/", "P", "4",
             " ", "(", "d", "e", "v", " ", "1", "6", ")">>

\* the rack label of a side string of the table: RX+1 when it is written
\* with the prefix "Next ", RX otherwise
SideLabel(side_str) ==
    IF Len(side_str) >= 5 /\ SubSeq(side_str, 1, 5) = <<"N", "e", "x", "t", " ">>
    THEN "RX+1" ELSE "RX"

\* external row i reported from chip A on its first side to chip B on its
\* second side (flip = FALSE) or the other way round (flip = TRUE)
RowEdge(i, flip, A, B) ==
    LET r  == external_rows[i]
        l1 == SideLabel(external_connections[i].side1)
        l2 == SideLabel(external_connections[i].side2)
    IN  IF flip
        THEN <<r.p2, l2, NodeStr(r.s2_node_num), CardStr(r.s2_card_num), A,
               l1, NodeStr(r.s1_node_num), CardStr(r.s1_card_num), r.p1, B>>
        ELSE <<r.p1, l1, NodeStr(r.s1_node_num), CardStr(r.s1_card_num), A,
               l2, NodeStr(r.s2_node_num), CardStr(r.s2_card_num), r.p2, B>>

\* C22: the rack delta is ignored when matching and resolving. For chips
\* on different nodes, find_connections_between_chips returns exactly the
\* external rows whose two sides' (node, card) numbers are the two chips'
\* coordinates, with or without the prefix "Next" on either side, each
\* once; the returned edge carries RX+1 on a "Next" side and RX on the
\* other, and the chip index it gives for each side is the chip of the
\* window at that side's node and card numbers.
C22_RackDeltaIgnored ==
    (pc = "returned" /\ fn = "between"
        /\ map_chip_to_node_card(A_chip, start_node_num)[1]
               # map_chip_to_node_card(B_chip, start_node_num)[1]) =>
        LET a == map_chip_to_node_card(A_chip, start_node_num)
            b == map_chip_to_node_card(B_chip, start_node_num)
            rows == 1..Len(external_rows)
            fwd == {i \in rows :
                       /\ <<external_rows[i].s1_node_num,
                            external_rows[i].s1_card_num>> = a
                       /\ <<external_rows[i].s2_node_num,
                            external_rows[i].s2_card_num>> = b}
            bwd == {i \in rows :
                       /\ <<external_rows[i].s2_node_num,
                            external_rows[i].s2_card_num>> = a
                       /\ <<external_rows[i].s1_node_num,
                            external_rows[i].s1_card_num>> = b}
        IN  /\ {connections[k] : k \in 1..Len(connections)} =
                   {RowEdge(i, FALSE, A_chip, B_chip) : i \in fwd}
                       \cup {RowEdge(i, TRUE, A_chip, B_chip) : i \in bwd}
            /\ Len(connections) = Cardinality(fwd) + Cardinality(bwd)
            /\ \A k \in 1..Len(connections) :
                   LET c == connections[k]
                   IN  /\ node_card_to_chip(IntOf(Drop(c[3], 1)).val,
                                            IntOf(Drop(c[4], 1)).val,
                                            start_node_num, nchips) = c[5]
                       /\ node_card_to_chip(IntOf(Drop(c[7], 1)).val,
                                            IntOf(Drop(c[8], 1)).val,
                                            start_node_num, nchips) = c[10]

\* C22 witness: chips 64 and 0 of the full fabric, N9/C0 and N1/C0, are
\* joined by a row written "N9/C0/P5" - "Next N1/C0/P0"; the row is
\* returned, with RX+1 on the side of chip 0.
C22_Witness ==
    /\ pc = "returned" /\ fn = "between"
    /\ nchips = 72 /\ start_node_num = 1 /\ A_chip = 64 /\ B_chip = 0
    /\ connections = << <<5, "RX", <<"N", "9">>, <<"C", "0">>, 64,
                          "RX+1", <<"N", "1">>, <<"C", "0">>, 0, 0>> >>

\* the elements of a list of connections whose side-B chip index is b
ToChip(seq, b) == SelectSeq(seq, LAMBDA c : c[10] = b)

\* C23: point-to-point mode agrees with enumerate-all mode. For every
\* supported fabric size, start node and chips a, b of the window, the list
\* find_connections_between_chips returns for (a, b) is the sub-list of
\* the list find_all_connections_for_chip returned for a of the elements
\* whose side-B chip index is b, in the same order.
C23_BetweenIsFilteredAll ==
    (pc = "returned" /\ fn = "all") =>
        \A b \in 0..(nchips - 1) :
            find_connections_between_chips(nchips, start_node_num, A_chip, b)
                = ToChip(connections, b)

\* C23 witness: every link of chip 3 of the 8-chip fabric on node 4 has
\* been returned; the one to chip 5, another card of the node, is the
\* whole point-to-point result for (3, 5).
C23_Witness ==
    /\ pc = "returned" /\ fn = "all"
    /\ nchips = 8 /\ start_node_num = 4 /\ A_chip = 3
    /\ Len(ToChip(connections, 5)) = 1
    /\ find_connections_between_chips(8, 4, 3, 5) = ToChip(connections, 5)

\* the connections of a list, as a set
Elements(seq) == {seq[k] : k \in 1..Len(seq)}

\* C24: wiring is reported symmetrically across chips. For every supported
\* fabric size, start node and chip a of the window, each connection
\* (port p on a, port q on b) of find_all_connections_for_chip for a is,
\* with its two sides and their rack labels swapped, a connection of
\* find_all_connections_for_chip for b. As a ranges over the whole window
\* this is the equivalence in both directions.
C24_SymmetricAcrossChips ==
    (pc = "returned" /\ fn = "all") =>
        \A k \in 1..Len(connections) :
            LET c == connections[k]
            IN  /\ c[10] \in 0..(nchips - 1)
                /\ SwapSides(c) \in
                       Elements(find_all_connections_for_chip(
                                    nchips, start_node_num, c[10]))

\* C24 witness: chip 8 of the full fabric (N2/C0) lists its cable to chip
\* 0 as port 0 to port 5; chip 0 lists the same cable as port 5 to port 0.
C24_Witness ==
    /\ pc = "returned" /\ fn = "all"
    /\ nchips = 72 /\ start_node_num = 1 /\ A_chip = 8
    /\ <<0, "RX", <<"N", "2">>, <<"C", "0">>, 8,
         "RX", <<"N", "1">>, <<"C", "0">>, 5, 0>> \in Elements(connections)
    /\ <<5, "RX", <<"N", "1">>, <<"C", "0">>, 0,
         "RX", <<"N", "2">>, <<"C", "0">>, 0, 8>>
           \in Elements(find_all_connections_for_chip(72, 1, 0))

\* side A of every returned connection names the queried chip: its chip
\* index and the node and card that chip maps to
SideAIsQueried ==
    LET at == map_chip_to_node_card(A_chip, start_node_num)
    IN  \A k \in 1..Len(connections) :
            /\ connections[k][5] = A_chip
            /\ connections[k][3] = NodeStr(at[1])
            /\ connections[k][4] = CardStr(at[2])

\* C25 as stated: in every connection returned by any of the three
\* resolvers side A describes the queried chip and carries the rack label
\* RX; only the partner side may carry RX+1.
C25_QueriedSideRX_Stated ==
    (pc = "returned") =>
        /\ SideAIsQueried
        /\ \A k \in 1..Len(connections) : connections[k][2] = "RX"

\* the external rows written with "Next" on one side, as pairs
\* <<endpoint of the "Next" side, endpoint of the other side>>, an endpoint
\* being <<node, card, port>>
NextPairs ==
    {<<ExternalEndpoints(i)[1], ExternalEndpoints(i)[2]>> :
         i \in {j \in 1..Len(external_rows) :
                    SideLabel(external_connections[j].side1) = "RX+1"}}
        \cup {<<ExternalEndpoints(i)[2], ExternalEndpoints(i)[1]>> :
                  i \in {j \in 1..Len(external_rows) :
                             SideLabel(external_connections[j].side2) = "RX+1"}}

\* the endpoints <<node, card, port>> of the two sides of a connection
EndA(c) == <<IntOf(Drop(c[3], 1)).val, IntOf(Drop(c[4], 1)).val, c[1]>>
EndB(c) == <<IntOf(Drop(c[7], 1)).val, IntOf(Drop(c[8], 1)).val, c[9]>>

\* C25: in every connection returned by any of the three resolvers side A
\* describes the queried chip (chip index, node, card). Each side carries
\* the rack label of the table row it comes from: a side is labelled RX+1
\* exactly when the row writes that endpoint with the prefix "Next", be it
\* the partner's side or the queried chip's own; the other side is then
\* labelled RX, and both sides of an internal connection are labelled RX.
C25_QueriedSideLabel ==
    (pc = "returned") =>
        /\ SideAIsQueried
        /\ \A k \in 1..Len(connections) :
               LET c == connections[k]
               IN  /\ c[2] \in {"RX", "RX+1"} /\ c[6] \in {"RX", "RX+1"}
                   /\ (c[2] = "RX+1") <=>
                          (c[3] # c[7] /\ <<EndA(c), EndB(c)>> \in NextPairs)
                   /\ (c[6] = "RX+1") <=>
                          (c[3] # c[7] /\ <<EndB(c), EndA(c)>> \in NextPairs)
                   /\ ~(c[2] = "RX+1" /\ c[6] = "RX+1")

\* C25 witness: the first connection listed for chip 0 of the full fabric
\* is the cable the table writes "N9/C0/P5" - "Next N1/C0/P0": side A, the
\* queried chip, carries RX+1 and the partner RX.
C25_Witness ==
    /\ pc = "returned" /\ fn = "all"
    /\ nchips = 72 /\ start_node_num = 1 /\ A_chip = 0
    /\ connections[1] = <<0, "RX+1", <<"N", "1">>, <<"C", "0">>, 0,
                          "RX", <<"N", "9">>, <<"C", "0">>, 5, 64>>

\* internal_connections holds exactly one row per unordered pair of
\* distinct cards of a node
InternalIsFullMesh ==
    \A x, y \in 0..7 :
        x < y =>
            Cardinality({i \in 1..Len(internal_connections) :
                             {internal_connections[i].card1,
                              internal_connections[i].card2} = {x, y}}) = 1

\* the connection is a row of internal_connections, read from either end
FromInternalTable(c) ==
    \E i \in 1..Len(internal_connections) :
        LET r == internal_connections[i]
            e == <<IntOf(Drop(c[4], 1)).val, c[1],
                   IntOf(Drop(c[8], 1)).val, c[9]>>
        IN  \/ e = <<r.card1, r.connector1, r.card2, r.connector2>>
            \/ e = <<r.card2, r.connector2, r.card1, r.connector1>>

\* the connections of a list whose two sides are on the same node
SameNode(seq) == SelectSeq(seq, LAMBDA c : c[3] = c[7])

\* C26: the intra-node mesh is always fully populated. For every supported
\* fabric size, start node and chip of the window,
\* find_all_connections_for_chip returns exactly 7 connections inside the
\* chip's own node, each a row of internal_connections, one to each of the
\* other 7 cards, and each partner chip is the chip of the window at that
\* card of the node; internal_connections holds exactly one row per
\* unordered pair of distinct cards.
C26_FullInternalMesh ==
    (pc = "returned" /\ fn = "all") =>
        LET at   == map_chip_to_node_card(A_chip, start_node_num)
            mesh == SameNode(connections)
        IN  /\ InternalIsFullMesh
            /\ Len(mesh) = 7
            /\ {IntOf(Drop(mesh[k][8], 1)).val : k \in 1..Len(mesh)}
                   = (0..7) \ {at[2]}
            /\ \A k \in 1..Len(mesh) :
                   /\ FromInternalTable(mesh[k])
                   /\ mesh[k][2] = "RX" /\ mesh[k][6] = "RX"
                   /\ mesh[k][10] \in 0..(nchips - 1)
                   /\ map_chip_to_node_card(mesh[k][10], start_node_num)
                          = <<at[1], IntOf(Drop(mesh[k][8], 1)).val>>

\* C26 witness: the last chip of the 24-chip fabric that starts at node 9,
\* chip 23 on N2/C7: its seven links inside node 2 go to chips 16..22.
C26_Witness ==
    /\ pc = "returned" /\ fn = "all"
    /\ nchips = 24 /\ start_node_num = 9 /\ A_chip = 23
    /\ Len(SameNode(connections)) = 7
    /\ {SameNode(connections)[k][10] : k \in 1..7} = 16..22

\* C27: at most one link per port and per pair of chips. For every
\* supported fabric size, start node and chips of the window,
\* find_connections_from_port returns at most one connection whatever the
\* port, find_connections_between_chips returns at most one connection,
\* and the side-A ports of a find_all_connections_for_chip result are
\* strictly increasing, so pairwise distinct.
C27_AtMostOneLink ==
    (pc = "returned") =>
        /\ fn = "port" => Len(connections) <= 1
        /\ fn = "between" => Len(connections) <= 1
        /\ fn = "all" =>
               \A k \in 1..(Len(connections) - 1) :
                   connections[k][1] < connections[k + 1][1]

\* C27 witness: port 15 of chip 10 of the full fabric that starts at node
\* 3 has been resolved: one connection.
C27_Witness ==
    /\ pc = "returned" /\ fn = "port"
    /\ nchips = 72 /\ start_node_num = 3 /\ A_chip = 10
    /\ port_str = <<"P", "1", "5">>
    /\ Len(connections) = 1
    /\ connections[1][1] = 15 /\ connections[1][5] = 10

\* the connections of a list whose two sides are on different nodes
OtherNode(seq) == SelectSeq(seq, LAMBDA c : c[3] # c[7])

\* C28: full fabric degree. With 72 chips, for every start node and every
\* chip, find_all_connections_for_chip returns exactly 11 connections: 7
\* inside the chip's node, rows of internal_connections, and 4 cables to
\* other nodes whose side-A ports are exactly 0, 4, 5 and 15.
C28_FullFabricDegree ==
    (pc = "returned" /\ fn = "all" /\ nchips = 72) =>
        LET mesh   == SameNode(connections)
            cables == OtherNode(connections)
        IN  /\ Len(connections) = 11
            /\ Len(mesh) = 7
            /\ \A k \in 1..Len(mesh) : FromInternalTable(mesh[k])
            /\ Len(cables) = 4
            /\ {cables[k][1] : k \in 1..Len(cables)} = {0, 4, 5, 15}
            /\ \A k \in 1..Len(cables) : ~FromInternalTable(cables[k])

\* C28 witness: the last chip of the full fabric that starts at node 7,
\* chip 71 on N6/C7, has its eleven connections, cables on ports 0, 4, 5
\* and 15 among them.
C28_Witness ==
    /\ pc = "returned" /\ fn = "all"
    /\ nchips = 72 /\ start_node_num = 7 /\ A_chip = 71
    /\ Len(connections) = 11
    /\ connections[1][3] = <<"N", "6">> /\ connections[1][4] = <<"C", "7">>
    /\ {OtherNode(connections)[k][1] : k \in 1..4} = {0, 4, 5, 15}

\* a connection without its two chip indices and without the node and card
\* of side A: side-A rack, side-A port, side-B rack, node, card and port
Wiring(c) == <<c[2], c[1], c[6], c[7], c[8], c[9]>>

WiringList(seq) == [k \in 1..Len(seq) |-> Wiring(seq[k])]

\* C29: rotation only relabels chips. With 72 chips, for the coordinate of
\* any chip and any two start nodes, find_all_connections_for_chip for the
\* chip at that coordinate under one start node and under the other
\* return the same list of (side-A rack, side-A port, side-B rack, node,
\* card, port), and the same side-A node and card; the chip index of a
\* side is, under each start node, the chip at that side's coordinate.
C29_RotationRelabels ==
    (pc = "returned" /\ fn = "all" /\ nchips = 72) =>
        LET at == map_chip_to_node_card(A_chip, start_node_num)
        IN  \A s2 \in StartNodes :
                LET chip2 == node_card_to_chip(at[1], at[2], s2, nchips)
                    other == find_all_connections_for_chip(nchips, s2, chip2)
                IN  /\ chip2 # None
                    /\ WiringList(other) = WiringList(connections)
                    /\ \A k \in 1..Len(other) :
                           /\ other[k][3] = connections[k][3]
                           /\ other[k][4] = connections[k][4]
                           /\ other[k][5] = chip2
                           /\ map_chip_to_node_card(other[k][10], s2) =
                                  map_chip_to_node_card(connections[k][10],
                                                        start_node_num)

\* C29 witness: chip 0 under start node 5 sits on N5/C0, where chip 32
\* sits under start node 1: both list the same eleven wirings, the first
\* to chips 64 and 24 respectively.
C29_Witness ==
    /\ pc = "returned" /\ fn = "all"
    /\ nchips = 72 /\ start_node_num = 5 /\ A_chip = 0
    /\ node_card_to_chip(5, 0, 1, 72) = 32
    /\ WiringList(find_all_connections_for_chip(72, 1, 32))
           = WiringList(connections)
    /\ Len(connections) = 11
    /\ connections[1][10] # find_all_connections_for_chip(72, 1, 32)[1][10]

\* the first check of main that a command line fails, in the order main
\* makes them: fewer than three arguments, fabric size, start node, more
\* than four arguments, chip A's token, chip B's token, the chip ranges;
\* "none" when it passes them all
FirstFailure(av) ==
    IF Len(av) < 3 THEN "usage"
    ELSE IF ~validate_nchips(av[1]) THEN "nchips"
    ELSE IF ~parse_node_arg(av[2]).ok THEN "node"
    ELSE IF Len(av) > 4 THEN "count"
    ELSE LET n == get_nchips(av[1])
             s == parse_node_arg(av[2]).val
             two == Len(av) = 4 /\ ~StartsWith(av[4], <<"P">>)
         IN  IF ~parse_chip_arg(av[3], n, s).ok THEN "chipA"
             ELSE IF two /\ ~parse_chip_arg(av[4], n, s).ok THEN "chipB"
             ELSE IF \/ ~ChipRangeOk(parse_chip_arg(av[3], n, s).val, n)
                     \/ two /\ ~ChipRangeOk(parse_chip_arg(av[4], n, s).val, n)
             THEN "range"
             ELSE "none"

\* the one line main prints for a failed check
FailureLine(av, check) ==
    IF check = "nchips"
    THEN Line("error",
              "Error: nchips must be in format [8|16|24|32|40|64|72]c?, got ",
              av[1])
    ELSE IF check = "node"
    THEN Line("error", parse_node_arg(av[2]).err, <<>>)
    ELSE IF check = "count"
    THEN Line("error",
              "Invalid arguments. Must provide another chip, a port, or a single chip.",
              <<>>)
    ELSE LET n == get_nchips(av[1])
             s == parse_node_arg(av[2]).val
         IN  IF check = "chipA"
             THEN Line("error", parse_chip_arg(av[3], n, s).err, <<>>)
             ELSE IF check = "chipB"
             THEN Line("error", parse_chip_arg(av[4], n, s).err, <<>>)
             ELSE Line("error", "Chip numbers must be between 0 and ",
                       IntToStr(n - 1))

\* C30 as stated: main makes its checks in a fixed order (argument count,
\* fabric size, start node, chip tokens A before B, chip ranges) and stops
\* at the first that fails. Every invocation ends in exactly one of three
\* outcomes: the usage text; exactly one error message, that of the
\* earliest failing check, with no resolver run; or, all checks passed,
\* the connection lines of the resolver's list (possibly none).
C30_SingleOutcome ==
    Terminated =>
        LET check == FirstFailure(argv)
        IN  IF check = "usage"
            THEN pc = "done" /\ fn = "none" /\ stdout = UsageLines
            ELSE IF check # "none"
            THEN /\ pc = "done" /\ fn = "none"
                 /\ stdout = <<FailureLine(argv, check)>>
            ELSE /\ pc = "done" /\ fn # "none"
                 /\ Len(stdout) = Len(connections)
                 /\ \A i \in 1..Len(stdout) : stdout[i].kind = "connection"

\* C30 on the command lines whose port token, if any, is "P" and an integer
C30_SingleOutcome_IntegerPort ==
    (Len(argv) = 4 /\ StartsWith(argv[4], <<"P">>) /\ ~PortNum(argv[4]).ok)
        \/ C30_SingleOutcome

\* "72c N5 3 P" has ended in none of the three outcomes: every check
\* passed, the resolver was entered and raised, nothing was printed
C30_RaisedOutcome ==
    /\ pc = "raised"
    /\ argv = << <<"7", "2", "c">>, <<"N", "5">>, <<"3">>, <<"P">> >>
    /\ FirstFailure(argv) = "none"
    /\ fn = "port"
    /\ raised = "ValueError"
    /\ stdout = <<>>

====
